---- MODULE Spec2Model ----
(***************************************************************************)
(* hax-ai-interface: the command engine SmartAIProcessor of                *)
(* src/lib/ai-processorORIG.js and its later variant src/unnamed/part_001. *)
(* A request is a sentence (a tuple of characters); process() classifies   *)
(* it with the rule cascade and/or the generative provider and returns a   *)
(* plan {explanation, commands, success, ...}.                             *)
(***************************************************************************)
EXTENDS Integers, Sequences, FiniteSets, TLC

(***************************************************************************)
(* Text.  A JavaScript string is a tuple of one-character strings.         *)
(***************************************************************************)
Lower == {"a","b","c","d","e","f","g","h","i","j","k","l","m","n","o","p","q","r","s","t","u","v","w","x","y","z"}
Upper == {"A","B","C","D","E","F","G","H","I","J","K","L","M","N","O","P","Q","R","S","T","U","V","W","X","Y","Z"}
Digit == {"0","1","2","3","4","5","6","7","8","9"}
WS == {" ", "\t", "\n"}
WordCh == Lower \cup Upper \cup Digit \cup {"_"}
Punct == {"-", ".", ",", "?", "!", ":", "/", "'", "\"", "<", ">"}
Alphabet == WordCh \cup WS \cup Punct
Dot == Alphabet \ {"\n"}

LowerOf == [c \in Upper |->
  CASE c="A"->"a" [] c="B"->"b" [] c="C"->"c" [] c="D"->"d" [] c="E"->"e" [] c="F"->"f" [] c="G"->"g"
    [] c="H"->"h" [] c="I"->"i" [] c="J"->"j" [] c="K"->"k" [] c="L"->"l" [] c="M"->"m" [] c="N"->"n"
    [] c="O"->"o" [] c="P"->"p" [] c="Q"->"q" [] c="R"->"r" [] c="S"->"s" [] c="T"->"t" [] c="U"->"u"
    [] c="V"->"v" [] c="W"->"w" [] c="X"->"x" [] c="Y"->"y" [] c="Z"->"z"]

Fold(c) == IF c \in Upper THEN LowerOf[c] ELSE c

ToLowerCase(s) == [i \in 1..Len(s) |-> Fold(s[i])]

Trim(s) ==
  LET keep == {i \in 1..Len(s) : s[i] \notin WS}
  IN IF keep = {} THEN <<>>
     ELSE SubSeq(s, CHOOSE i \in keep : \A j \in keep : i <= j,
                    CHOOSE i \in keep : \A j \in keep : i >= j)

Includes(s, w) ==
  \E i \in 1..(Len(s) - Len(w) + 1) : SubSeq(s, i, i + Len(w) - 1) = w

Some(ws, s) == \E k \in 1..Len(ws) : Includes(s, ws[k])

(***************************************************************************)
(* Regular expressions.  A pattern is a tree of nodes; Run matches a list  *)
(* of nodes at position i with the backtracking order of the JavaScript    *)
(* engine: alternatives left to right, greedy repetition longest first,    *)
(* lazy repetition shortest first, leftmost start in Exec.                 *)
(***************************************************************************)
Ch(S) == <<"c", S>>
Lit(cs) == <<"lit", cs, FALSE>>
LitI(cs) == <<"lit", cs, TRUE>>
Cat(ns) == <<"cat", ns>>
Alt(ns) == <<"alt", ns>>
Star(n) == <<"rep", n[2], 0, TRUE>>
Plus(n) == <<"rep", n[2], 1, TRUE>>
LazyStar(n) == <<"rep", n[2], 0, FALSE>>
LazyPlus(n) == <<"rep", n[2], 1, FALSE>>
Opt(n) == <<"alt", <<n, <<"cat", <<>>>>>>>>
LazyOpt(n) == <<"alt", <<<<"cat", <<>>>>, n>>>>
Grp(k, n) == <<"cat", <<<<"open", k>>, n, <<"close", k>>>>>>
Ahead(n) == <<"ahead", n>>
Bos == <<"bos">>
Eos == <<"eos">>

NoCaps == <<<<0, 0>>, <<0, 0>>>>
Fail == [ok |-> FALSE, start |-> 0, end |-> 0, caps |-> NoCaps]

MaxRun(s, i, S) ==
  CHOOSE k \in 0..(Len(s) + 1 - i) :
    /\ \A j \in 0..(k - 1) : s[i + j] \in S
    /\ (i + k > Len(s) \/ s[i + k] \notin S)

Least(K) == CHOOSE k \in K : \A m \in K : k <= m
Most(K) == CHOOSE k \in K : \A m \in K : k >= m

\* of the pairs <<k, r>>, the result r of the first (last) k that matched
FirstOk(res) ==
  LET oks == {p \in res : p[2].ok}
  IN IF oks = {} THEN Fail ELSE (CHOOSE p \in oks : \A q \in oks : p[1] <= q[1])[2]

LastOk(res) ==
  LET oks == {p \in res : p[2].ok}
  IN IF oks = {} THEN Fail ELSE (CHOOSE p \in oks : \A q \in oks : p[1] >= q[1])[2]

RECURSIVE Run(_, _, _, _)
Run(ns, s, i, caps) ==
  IF Len(ns) = 0 THEN [ok |-> TRUE, start |-> 0, end |-> i, caps |-> caps]
  ELSE LET n == Head(ns)
           rest == Tail(ns)
           t == n[1]
       IN CASE t = "c" -> IF i <= Len(s) /\ s[i] \in n[2] THEN Run(rest, s, i + 1, caps) ELSE Fail
            [] t = "lit" -> IF /\ i + Len(n[2]) - 1 <= Len(s)
                               /\ \A j \in 1..Len(n[2]) :
                                    IF n[3] THEN Fold(s[i + j - 1]) = Fold(n[2][j])
                                            ELSE s[i + j - 1] = n[2][j]
                            THEN Run(rest, s, i + Len(n[2]), caps) ELSE Fail
            [] t = "cat" -> Run(n[2] \o rest, s, i, caps)
            [] t = "alt" -> IF Len(n[2]) = 0 THEN Fail
                            ELSE LET r == Run(<<n[2][1]>> \o rest, s, i, caps)
                                 IN IF r.ok THEN r
                                    ELSE Run(<<Alt(Tail(n[2]))>> \o rest, s, i, caps)
            [] t = "rep" -> LET res == {<<k, Run(rest, s, i + k, caps)>> : k \in n[3]..MaxRun(s, i, n[2])}
                            IN IF n[4] THEN LastOk(res) ELSE FirstOk(res)
            [] t = "open" -> Run(rest, s, i, [caps EXCEPT ![n[2]] = <<i, 0>>])
            [] t = "close" -> Run(rest, s, i, [caps EXCEPT ![n[2]] = <<caps[n[2]][1], i>>])
            [] t = "ahead" -> IF Run(<<n[2]>>, s, i, caps).ok THEN Run(rest, s, i, caps) ELSE Fail
            [] t = "bos" -> IF i = 1 THEN Run(rest, s, i, caps) ELSE Fail
            [] t = "eos" -> IF i = Len(s) + 1 THEN Run(rest, s, i, caps) ELSE Fail

\* the leftmost match that starts at position from or later
ExecFrom(re, s, from) ==
  LET res == {<<i, [Run(<<re>>, s, i, NoCaps) EXCEPT !.start = i]>> : i \in from..(Len(s) + 1)}
  IN FirstOk(res)

\* pattern.exec(s): the leftmost match, with its start and its groups
Exec(re, s) == ExecFrom(re, s, 1)

\* the successive matches of a pattern with the g flag
RECURSIVE MatchAll(_, _, _)
MatchAll(re, s, from) ==
  LET m == ExecFrom(re, s, from)
  IN IF from > Len(s) + 1 \/ ~m.ok THEN <<>>
     ELSE <<m>> \o MatchAll(re, s, IF m.end = m.start THEN m.end + 1 ELSE m.end)

\* pattern.test(s)
Test(re, s) == Exec(re, s).ok

\* match[k]
Group(m, s, k) == IF m.caps[k][2] = 0 THEN <<>> ELSE SubSeq(s, m.caps[k][1], m.caps[k][2] - 1)

AnyTest(ps, s) == \E k \in 1..Len(ps) : Test(ps[k], s)

FirstMatch(ps, s) ==
  FirstOk({<<k, Exec(ps[k], s)>> : k \in 1..Len(ps)})

\* null; no sentence equals it, a sentence being a tuple of single characters
Null == <<"null">>

Falsy(x) == x = Null \/ x = <<>>

(***************************************************************************)
(* The classifiers of the rule cascade.                                    *)
(***************************************************************************)
matchesPattern(input, actionWords, objectWords) ==
  /\ Some(actionWords, input)
  /\ (Len(objectWords) = 0 \/ Some(objectWords, input))

matchesWebComponent(input) ==
  AnyTest(<<
    Cat(<<LitI(<<"a","d","d">>), Plus(Ch(WS)), Opt(LitI(<<"a">>)), Star(Ch(WS)), Grp(1, Alt(<<Cat(<<LitI(<<"m","u","l","t","i","p","l","e">>), Star(Ch(WS)), LitI(<<"c","h","o","i","c","e">>)>>), LitI(<<"q","u","i","z">>), LitI(<<"a","s","s","e","s","s","m","e","n","t">>)>>))>>),
    Cat(<<LitI(<<"c","r","e","a","t","e">>), Plus(Ch(WS)), Opt(LitI(<<"a">>)), Star(Ch(WS)), Grp(1, Alt(<<Cat(<<LitI(<<"m","u","l","t","i","p","l","e">>), Star(Ch(WS)), LitI(<<"c","h","o","i","c","e">>)>>), LitI(<<"q","u","i","z">>), LitI(<<"a","s","s","e","s","s","m","e","n","t">>)>>))>>),
    Cat(<<LitI(<<"m","a","k","e">>), Plus(Ch(WS)), Opt(LitI(<<"a">>)), Star(Ch(WS)), Grp(1, Alt(<<Cat(<<LitI(<<"m","u","l","t","i","p","l","e">>), Star(Ch(WS)), LitI(<<"c","h","o","i","c","e">>)>>), LitI(<<"q","u","i","z">>), LitI(<<"a","s","s","e","s","s","m","e","n","t">>)>>))>>),
    Cat(<<LitI(<<"a","d","d">>), Plus(Ch(WS)), Opt(LitI(<<"a">>)), Star(Ch(WS)), Grp(1, Alt(<<LitI(<<"m","a","t","c","h","i","n","g">>), Cat(<<LitI(<<"t","r","u","e">>), Star(Ch(Dot)), LitI(<<"f","a","l","s","e">>)>>), Cat(<<LitI(<<"f","i","l","l">>), Star(Ch(Dot)), LitI(<<"i","n">>), Star(Ch(Dot)), LitI(<<"b","l","a","n","k">>)>>), Cat(<<LitI(<<"f","l","a","s","h">>), Star(Ch(Dot)), LitI(<<"c","a","r","d">>)>>)>>))>>),
    Cat(<<LitI(<<"c","r","e","a","t","e">>), Plus(Ch(WS)), Opt(LitI(<<"a">>)), Star(Ch(WS)), Grp(1, Alt(<<LitI(<<"m","a","t","c","h","i","n","g">>), Cat(<<LitI(<<"t","r","u","e">>), Star(Ch(Dot)), LitI(<<"f","a","l","s","e">>)>>), Cat(<<LitI(<<"f","i","l","l">>), Star(Ch(Dot)), LitI(<<"i","n">>), Star(Ch(Dot)), LitI(<<"b","l","a","n","k">>)>>), Cat(<<LitI(<<"f","l","a","s","h">>), Star(Ch(Dot)), LitI(<<"c","a","r","d">>)>>)>>))>>),
    Cat(<<LitI(<<"a","d","d">>), Plus(Ch(WS)), Opt(LitI(<<"a">>)), Star(Ch(WS)), Grp(1, Alt(<<LitI(<<"c","a","r","o","u","s","e","l">>), LitI(<<"t","i","m","e","l","i","n","e">>), Cat(<<LitI(<<"i","m","a","g","e">>), Star(Ch(Dot)), LitI(<<"m","a","p">>)>>), LitI(<<"l","e","s","s","o","n">>)>>))>>),
    Cat(<<LitI(<<"c","r","e","a","t","e">>), Plus(Ch(WS)), Opt(LitI(<<"a">>)), Star(Ch(WS)), Grp(1, Alt(<<LitI(<<"c","a","r","o","u","s","e","l">>), LitI(<<"t","i","m","e","l","i","n","e">>), Cat(<<LitI(<<"i","m","a","g","e">>), Star(Ch(Dot)), LitI(<<"m","a","p">>)>>), LitI(<<"l","e","s","s","o","n">>)>>))>>),
    Cat(<<LitI(<<"a","d","d">>), Plus(Ch(WS)), Opt(LitI(<<"a">>)), Star(Ch(WS)), Grp(1, Alt(<<Cat(<<LitI(<<"c","o","d","e">>), Star(Ch(WS)), LitI(<<"s","a","m","p","l","e">>)>>), Cat(<<LitI(<<"m","e","d","i","a">>), Star(Ch(WS)), LitI(<<"q","u","o","t","e">>)>>), LitI(<<"c","i","t","a","t","i","o","n">>)>>))>>),
    Cat(<<LitI(<<"c","r","e","a","t","e">>), Plus(Ch(WS)), Opt(LitI(<<"a">>)), Star(Ch(WS)), Grp(1, Alt(<<Cat(<<LitI(<<"c","o","d","e">>), Star(Ch(WS)), LitI(<<"s","a","m","p","l","e">>)>>), Cat(<<LitI(<<"m","e","d","i","a">>), Star(Ch(WS)), LitI(<<"q","u","o","t","e">>)>>), LitI(<<"c","i","t","a","t","i","o","n">>)>>))>>),
    Cat(<<LitI(<<"a","d","d">>), Star(Ch(Dot)), LitI(<<"e","l","e","m","e","n","t">>)>>),
    Cat(<<LitI(<<"c","r","e","a","t","e">>), Star(Ch(Dot)), LitI(<<"e","l","e","m","e","n","t">>)>>) >>, input)

matchesMultiplePages(input) ==
  AnyTest(<<
    Cat(<<LitI(<<"a","d","d">>), Plus(Ch(WS)), Star(Ch(Dot)), LitI(<<"p","a","g","e">>), Star(Ch(Dot)), Plus(Ch(WS)), LitI(<<"a","n","d">>), Plus(Ch(WS)), Star(Ch(Dot)), LitI(<<"p","a","g","e">>)>>),
    Cat(<<LitI(<<"c","r","e","a","t","e">>), Plus(Ch(WS)), Star(Ch(Dot)), LitI(<<"p","a","g","e">>), Star(Ch(Dot)), Plus(Ch(WS)), LitI(<<"a","n","d">>), Plus(Ch(WS)), Star(Ch(Dot)), LitI(<<"p","a","g","e">>)>>),
    Cat(<<LitI(<<"a","d","d">>), Plus(Ch(WS)), LitI(<<"a">>), Plus(Ch(WS)), Plus(Ch(WordCh)), Plus(Ch(WS)), LitI(<<"p","a","g","e">>), Plus(Ch(WS)), LitI(<<"a","n","d">>), Plus(Ch(WS)), Opt(LitI(<<"a">>)), Star(Ch(WS)), Plus(Ch(WordCh)), Plus(Ch(WS)), LitI(<<"p","a","g","e">>)>>),
    Cat(<<LitI(<<"a","d","d">>), Plus(Ch(WS)), Plus(Ch(WordCh)), Plus(Ch(WS)), LitI(<<"a","n","d">>), Plus(Ch(WS)), Plus(Ch(WordCh)), Plus(Ch(WS)), LitI(<<"p","a","g","e">>), Opt(LitI(<<"s">>))>>),
    Cat(<<LitI(<<"c","r","e","a","t","e">>), Plus(Ch(WS)), Plus(Ch(WordCh)), Plus(Ch(WS)), LitI(<<"a","n","d">>), Plus(Ch(WS)), Plus(Ch(WordCh)), Plus(Ch(WS)), LitI(<<"p","a","g","e">>), Opt(LitI(<<"s">>))>>) >>, input)

matchesSlidedeck(input) ==
  AnyTest(<<
    Cat(<<LitI(<<"m","a","k","e">>), Plus(Ch(WS)), LitI(<<"a">>), Plus(Ch(WS)), LitI(<<"s","l","i","d","e","d","e","c","k">>)>>),
    Cat(<<LitI(<<"c","r","e","a","t","e">>), Plus(Ch(WS)), LitI(<<"a">>), Plus(Ch(WS)), LitI(<<"s","l","i","d","e","d","e","c","k">>)>>),
    Cat(<<LitI(<<"b","u","i","l","d">>), Plus(Ch(WS)), LitI(<<"a">>), Plus(Ch(WS)), LitI(<<"s","l","i","d","e","d","e","c","k">>)>>),
    Cat(<<LitI(<<"g","e","n","e","r","a","t","e">>), Plus(Ch(WS)), LitI(<<"a">>), Plus(Ch(WS)), LitI(<<"s","l","i","d","e","d","e","c","k">>)>>),
    Cat(<<LitI(<<"m","a","k","e">>), Plus(Ch(WS)), LitI(<<"s","l","i","d","e","s">>)>>),
    Cat(<<LitI(<<"c","r","e","a","t","e">>), Plus(Ch(WS)), LitI(<<"s","l","i","d","e","s">>)>>),
    Cat(<<LitI(<<"b","u","i","l","d">>), Plus(Ch(WS)), LitI(<<"s","l","i","d","e","s">>)>>),
    Cat(<<LitI(<<"g","e","n","e","r","a","t","e">>), Plus(Ch(WS)), LitI(<<"s","l","i","d","e","s">>)>>),
    Cat(<<LitI(<<"s","l","i","d","e","d","e","c","k">>), Plus(Ch(WS)), LitI(<<"a","b","o","u","t">>)>>),
    Cat(<<LitI(<<"s","l","i","d","e","s">>), Plus(Ch(WS)), LitI(<<"a","b","o","u","t">>)>>),
    Cat(<<LitI(<<"s","l","i","d","e","s">>), Plus(Ch(WS)), LitI(<<"f","o","r">>)>>),
    Cat(<<LitI(<<"p","r","e","s","e","n","t","a","t","i","o","n">>), Plus(Ch(WS)), LitI(<<"a","b","o","u","t">>)>>),
    Cat(<<LitI(<<"m","a","k","e">>), Plus(Ch(WS)), LitI(<<"a">>), Plus(Ch(WS)), LitI(<<"p","r","e","s","e","n","t","a","t","i","o","n">>)>>),
    Cat(<<LitI(<<"c","r","e","a","t","e">>), Plus(Ch(WS)), LitI(<<"a">>), Plus(Ch(WS)), LitI(<<"p","r","e","s","e","n","t","a","t","i","o","n">>)>>) >>, input)

matchesDeployment(input) ==
  AnyTest(<<
    Cat(<<LitI(<<"d","e","p","l","o","y">>), Plus(Ch(WS)), LitI(<<"s","i","t","e">>)>>),
    Cat(<<LitI(<<"d","e","p","l","o","y">>), Plus(Ch(WS)), LitI(<<"w","e","b","s","i","t","e">>)>>),
    Cat(<<LitI(<<"d","e","p","l","o","y">>), Plus(Ch(WS)), Plus(Ch(WordCh))>>),
    Cat(<<LitI(<<"p","u","b","l","i","s","h">>), Plus(Ch(WS)), LitI(<<"s","i","t","e">>)>>),
    Cat(<<LitI(<<"p","u","b","l","i","s","h">>), Plus(Ch(WS)), LitI(<<"w","e","b","s","i","t","e">>)>>),
    Cat(<<LitI(<<"p","u","b","l","i","s","h">>), Plus(Ch(WS)), Plus(Ch(WordCh))>>),
    Cat(<<LitI(<<"m","a","k","e">>), Plus(Ch(WS)), LitI(<<"s","i","t","e">>), Plus(Ch(WS)), LitI(<<"l","i","v","e">>)>>),
    Cat(<<LitI(<<"m","a","k","e">>), Plus(Ch(WS)), LitI(<<"w","e","b","s","i","t","e">>), Plus(Ch(WS)), LitI(<<"l","i","v","e">>)>>),
    Cat(<<LitI(<<"g","o">>), Plus(Ch(WS)), LitI(<<"l","i","v","e">>)>>),
    Cat(<<LitI(<<"d","e","p","l","o","y">>), Plus(Ch(WS)), LitI(<<"t","o">>), Plus(Ch(WS)), LitI(<<"s","u","r","g","e">>)>>),
    Cat(<<LitI(<<"s","u","r","g","e">>), Plus(Ch(WS)), LitI(<<"d","e","p","l","o","y">>)>>) >>, input)

matchesCustomization(input) ==
  AnyTest(<<
    Cat(<<LitI(<<"c","u","s","t","o","m","i","z","e">>), Plus(Ch(WS)), LazyStar(Ch(Dot)), Plus(Ch(WS)), LitI(<<"p","a","g","e">>)>>),
    Cat(<<LitI(<<"c","u","s","t","o","m","i","z","e">>), Plus(Ch(WS)), LazyStar(Ch(Dot)), Plus(Ch(WS)), LitI(<<"a","n","d">>), Plus(Ch(WS)), LitI(<<"m","a","k","e">>), Plus(Ch(WS)), LitI(<<"i","t">>), Plus(Ch(WS)), LitI(<<"a","b","o","u","t">>)>>),
    Cat(<<LitI(<<"c","u","s","t","o","m","i","z","e">>), Plus(Ch(WS)), LazyStar(Ch(Dot)), Plus(Ch(WS)), LitI(<<"f","o","r">>)>>),
    Cat(<<LitI(<<"a","d","a","p","t">>), Plus(Ch(WS)), LazyStar(Ch(Dot)), Plus(Ch(WS)), LitI(<<"p","a","g","e">>)>>),
    Cat(<<LitI(<<"m","o","d","i","f","y">>), Plus(Ch(WS)), LazyStar(Ch(Dot)), Plus(Ch(WS)), LitI(<<"p","a","g","e">>), LazyStar(Ch(Dot)), Plus(Ch(WS)), LitI(<<"f","o","r">>)>>),
    Cat(<<LitI(<<"c","h","a","n","g","e">>), Plus(Ch(WS)), LazyStar(Ch(Dot)), Plus(Ch(WS)), LitI(<<"p","a","g","e">>), LazyStar(Ch(Dot)), Plus(Ch(WS)), LitI(<<"t","o">>), Plus(Ch(WS)), LitI(<<"b","e">>), Plus(Ch(WS)), LitI(<<"a","b","o","u","t">>)>>) >>, input)

matchesSiteCloning(input) ==
  AnyTest(<<
    Cat(<<Alt(<<LitI(<<"c","r","e","a","t","e">>), LitI(<<"m","a","k","e">>), LitI(<<"b","u","i","l","d">>)>>), Plus(Ch(WS)), Opt(Cat(<<LitI(<<"a">>), Plus(Ch(WS))>>)), Opt(Cat(<<LitI(<<"n","e","w">>), Plus(Ch(WS))>>)), LitI(<<"s","i","t","e">>), Plus(Ch(WS)), Opt(Cat(<<LitI(<<"c","o","p","y","i","n","g">>), Plus(Ch(WS))>>)), LitI(<<"f","r","o","m">>), Plus(Ch(WS)), LitI(<<"h","t","t","p">>), Opt(LitI(<<"s">>)), LitI(<<":","/","/">>)>>),
    Cat(<<Alt(<<LitI(<<"c","o","p","y">>), LitI(<<"c","l","o","n","e">>)>>), Plus(Ch(WS)), Opt(Cat(<<LitI(<<"t","h","e">>), Plus(Ch(WS))>>)), LitI(<<"s","i","t","e">>), Plus(Ch(WS)), LitI(<<"f","r","o","m">>), Plus(Ch(WS)), LitI(<<"h","t","t","p">>), Opt(LitI(<<"s">>)), LitI(<<":","/","/">>)>>),
    Cat(<<Alt(<<LitI(<<"c","o","p","y">>), LitI(<<"c","l","o","n","e">>)>>), Plus(Ch(WS)), LitI(<<"h","t","t","p">>), Opt(LitI(<<"s">>)), LitI(<<":","/","/">>), LazyStar(Ch(Dot)), Cat(<<Plus(Ch(WS)), Alt(<<LitI(<<"a","s">>), LitI(<<"i","n","t","o">>), LitI(<<"t","o">>)>>), Plus(Ch(WS))>>)>>),
    Cat(<<Alt(<<LitI(<<"i","m","p","o","r","t">>), LitI(<<"d","u","p","l","i","c","a","t","e">>)>>), Plus(Ch(WS)), Opt(Cat(<<LitI(<<"s","i","t","e">>), Plus(Ch(WS)), LitI(<<"f","r","o","m">>), Plus(Ch(WS))>>)), LitI(<<"h","t","t","p">>), Opt(LitI(<<"s">>)), LitI(<<":","/","/">>)>>),
    Cat(<<Alt(<<LitI(<<"c","r","e","a","t","e">>), LitI(<<"m","a","k","e">>)>>), Plus(Ch(WS)), Opt(Cat(<<LitI(<<"a">>), Plus(Ch(WS))>>)), Opt(Cat(<<LitI(<<"l","o","c","a","l">>), Plus(Ch(WS))>>)), LitI(<<"c","o","p","y">>), Plus(Ch(WS)), LitI(<<"o","f">>), Plus(Ch(WS)), LitI(<<"h","t","t","p">>), Opt(LitI(<<"s">>)), LitI(<<":","/","/">>)>>) >>, input)

(***************************************************************************)
(* The extractors.                                                         *)
(***************************************************************************)
\* s.replace(/\s+/g, '-')
ReplaceSpaces(s) ==
  LET idx == {i \in 1..Len(s) : s[i] \notin WS \/ i = 1 \/ s[i - 1] \notin WS}
      at(k) == CHOOSE i \in idx : Cardinality({j \in idx : j <= i}) = k
  IN [k \in 1..Cardinality(idx) |-> IF s[at(k)] \in WS THEN "-" ELSE s[at(k)]]

extractSiteName(input) ==
  LET m == FirstMatch(<<
        Cat(<<LitI(<<"c","a","l","l","e","d">>), Plus(Ch(WS)), Grp(1, Plus(Ch(Lower \cup Upper \cup Digit \cup {"-","_"})))>>),
        Cat(<<LitI(<<"n","a","m","e","d">>), Plus(Ch(WS)), Grp(1, Plus(Ch(Lower \cup Upper \cup Digit \cup {"-","_"})))>>),
        Cat(<<LitI(<<"s","i","t","e">>), Plus(Ch(WS)), Grp(1, Plus(Ch(Lower \cup Upper \cup Digit \cup {"-","_"})))>>),
        Cat(<<Lit(<<"\"">>), Grp(1, Plus(Ch(Lower \cup Upper \cup Digit \cup WS \cup {"-","_"}))), Lit(<<"\"">>)>>),
        Cat(<<Lit(<<"'">>), Grp(1, Plus(Ch(Lower \cup Upper \cup Digit \cup WS \cup {"-","_"}))), Lit(<<"'">>)>>) >>, input)
  IN IF m.ok THEN ToLowerCase(ReplaceSpaces(Group(m, input, 1))) ELSE Null

extractPageTitle(input) ==
  LET m == FirstMatch(<<
        Cat(<<Alt(<<LitI(<<"c","h","i","l","d">>), LitI(<<"s","u","b">>)>>), Star(Ch(WS \cup {"-"})), LitI(<<"p","a","g","e"," ","c","a","l","l","e","d">>), Plus(Ch(WS)), Grp(1, Plus(Ch(Lower \cup Upper \cup Digit \cup {"_","-"}))), Alt(<<Cat(<<Plus(Ch(WS)), LitI(<<"u","n","d","e","r">>)>>), Cat(<<Plus(Ch(WS)), LitI(<<"b","e","n","e","a","t","h">>)>>), Cat(<<Plus(Ch(WS)), LitI(<<"o","f">>)>>), Eos>>)>>),
        Cat(<<LitI(<<"p","a","g","e"," ","c","a","l","l","e","d">>), Plus(Ch(WS)), Grp(1, Plus(Ch(Lower \cup Upper \cup Digit \cup {"_","-"}))), Ahead(Alt(<<Cat(<<Plus(Ch(WS)), LitI(<<"w","i","t","h">>)>>), Cat(<<Plus(Ch(WS)), LitI(<<"a","b","o","u","t">>)>>), Cat(<<Plus(Ch(WS)), LitI(<<"c","o","n","t","a","i","n","i","n","g">>)>>), Cat(<<Plus(Ch(WS)), LitI(<<"t","h","a","t">>)>>), Cat(<<Plus(Ch(WS)), LitI(<<"u","n","d","e","r">>)>>), Cat(<<Plus(Ch(WS)), LitI(<<"b","e","n","e","a","t","h">>)>>), Eos>>))>>),
        Cat(<<LitI(<<"c","a","l","l","e","d">>), Plus(Ch(WS)), Grp(1, Plus(Ch(Lower \cup Upper \cup Digit \cup {"_","-"}))), Ahead(Alt(<<Cat(<<Plus(Ch(WS)), LitI(<<"w","i","t","h">>)>>), Cat(<<Plus(Ch(WS)), LitI(<<"a","b","o","u","t">>)>>), Cat(<<Plus(Ch(WS)), LitI(<<"c","o","n","t","a","i","n","i","n","g">>)>>), Cat(<<Plus(Ch(WS)), LitI(<<"t","h","a","t">>)>>), Cat(<<Plus(Ch(WS)), LitI(<<"u","n","d","e","r">>)>>), Cat(<<Plus(Ch(WS)), LitI(<<"b","e","n","e","a","t","h">>)>>), Eos>>))>>),
        Cat(<<LitI(<<"p","a","g","e"," ","n","a","m","e","d">>), Plus(Ch(WS)), Grp(1, Plus(Ch(Lower \cup Upper \cup Digit \cup {"_","-"}))), Ahead(Alt(<<Cat(<<Plus(Ch(WS)), LitI(<<"w","i","t","h">>)>>), Cat(<<Plus(Ch(WS)), LitI(<<"a","b","o","u","t">>)>>), Cat(<<Plus(Ch(WS)), LitI(<<"c","o","n","t","a","i","n","i","n","g">>)>>), Cat(<<Plus(Ch(WS)), LitI(<<"t","h","a","t">>)>>), Cat(<<Plus(Ch(WS)), LitI(<<"u","n","d","e","r">>)>>), Cat(<<Plus(Ch(WS)), LitI(<<"b","e","n","e","a","t","h">>)>>), Eos>>))>>),
        Cat(<<LitI(<<"a","d","d"," ">>), Opt(Alt(<<LitI(<<"a">>), LitI(<<"a","n">>)>>)), Opt(LitI(<<" ">>)), Opt(LitI(<<"n","e","w">>)), Opt(LitI(<<" ">>)), Opt(Cat(<<LitI(<<"c","h","i","l","d">>), Plus(Ch(WS))>>)), LitI(<<"p","a","g","e"," ">>), Opt(Alt(<<LitI(<<"c","a","l","l","e","d">>), LitI(<<"n","a","m","e","d">>)>>)), Opt(LitI(<<" ">>)), Grp(1, Plus(Ch(Lower \cup Upper \cup Digit \cup {"_","-"}))), Ahead(Alt(<<Cat(<<Plus(Ch(WS)), LitI(<<"w","i","t","h">>)>>), Cat(<<Plus(Ch(WS)), LitI(<<"a","b","o","u","t">>)>>), Cat(<<Plus(Ch(WS)), LitI(<<"c","o","n","t","a","i","n","i","n","g">>)>>), Cat(<<Plus(Ch(WS)), LitI(<<"t","h","a","t">>)>>), Cat(<<Plus(Ch(WS)), LitI(<<"u","n","d","e","r">>)>>), Cat(<<Plus(Ch(WS)), LitI(<<"b","e","n","e","a","t","h">>)>>), Cat(<<Plus(Ch(WS)), LitI(<<"t","o">>)>>), Eos>>))>>),
        Cat(<<LitI(<<"\"">>), Grp(1, Plus(Ch(Alphabet \ ({"\""})))), LitI(<<"\"">>), Star(Ch(WS)), LitI(<<"p","a","g","e">>)>>),
        Cat(<<LitI(<<"'">>), Grp(1, Plus(Ch(Alphabet \ ({"'"})))), LitI(<<"'">>), Star(Ch(WS)), LitI(<<"p","a","g","e">>)>>),
        Cat(<<Alt(<<LitI(<<"e","d","i","t">>), LitI(<<"c","h","a","n","g","e">>), LitI(<<"u","p","d","a","t","e">>)>>), Plus(Ch(WS)), Opt(Cat(<<LitI(<<"t","h","e">>), Plus(Ch(WS))>>)), Grp(1, Plus(Ch(Lower \cup Upper \cup Digit \cup {"_","-"," "})))>>),
        Cat(<<Alt(<<LitI(<<"t","h","e">>), LitI(<<"a">>)>>), Plus(Ch(WS)), Grp(1, Plus(Ch(Lower \cup Upper \cup Digit \cup {"_","-"," "}))), Plus(Ch(WS)), LitI(<<"p","a","g","e">>)>>) >>, input)
  IN IF m.ok THEN Trim(Group(m, input, 1)) ELSE Null

\* U+0008, the character a template literal's \b stands for; no sentence holds it
Backspace == "\\b"

\* the words of input.split(/\s+/), by the position each starts at
WordAt(s, i) ==
  SubSeq(s, i, i + MaxRun(s, i, Alphabet \ WS) - 1)

extractSiteFromInput(input, availableSites) ==
  LET ignoreList == <<<<"i","s">>, <<"n","o","d","e",":","a","d","d">>, <<"a","d","d">>, <<"p","a","g","e">>, <<"c","a","l","l","e","d">>, <<"t","o">>, <<"w","i","t","h">>, <<"n","e","w">>>>
      validSites == SelectSeq(availableSites,
                      LAMBDA site : /\ ~Falsy(site)
                                    /\ \A k \in 1..Len(ignoreList) : ignoreList[k] # ToLowerCase(site))
      starts == {i \in 1..Len(input) : input[i] \notin WS /\ (i = 1 \/ input[i - 1] \in WS)}
      exact == {i \in starts : \E k \in 1..Len(validSites) : validSites[k] = WordAt(input, i)}
      \* the fallback pattern `\b${site}\b` is built in a template literal, where \b
      \* is the backspace character U+0008: the site name between two backspaces
      bs == {k \in 1..Len(validSites) :
               Includes(ToLowerCase(input), <<Backspace>> \o ToLowerCase(validSites[k]) \o <<Backspace>>)}
  IN IF exact # {} THEN WordAt(input, Least(exact))
     ELSE IF bs # {} THEN validSites[Least(bs)]
     ELSE Null

extractContent(input) ==
  LET m1 == Exec(Cat(<<LitI(<<"w","i","t","h"," ","c","o","n","t","e","n","t">>), Plus(Ch(WS)), Grp(1, Plus(Ch(Dot)))>>), input)
      comp == FirstMatch(<<
        Cat(<<LitI(<<"a","b","o","u","t">>), Plus(Ch(WS)), Grp(1, LazyPlus(Ch(Dot))), Plus(Ch(WS)), LitI(<<"t","o">>), Plus(Ch(WS)), LitI(<<"t","h","e">>), Plus(Ch(WS)), Plus(Ch(WordCh)), Plus(Ch(WS)), LitI(<<"p","a","g","e">>)>>),
        Cat(<<LitI(<<"a","b","o","u","t">>), Plus(Ch(WS)), Grp(1, LazyPlus(Ch(Dot))), Plus(Ch(WS)), LitI(<<"t","o">>), Plus(Ch(WS)), LitI(<<"p","a","g","e">>), Plus(Ch(WS)), Plus(Ch(WordCh))>>),
        Cat(<<LitI(<<"a","b","o","u","t">>), Plus(Ch(WS)), Grp(1, LazyPlus(Ch(Dot))), Plus(Ch(WS)), Alt(<<LitI(<<"o","n">>), LitI(<<"f","o","r">>), LitI(<<"i","n">>)>>), Plus(Ch(WS)), LitI(<<"p","a","g","e">>)>>) >>, input)
      rest == FirstMatch(<<
        Cat(<<LitI(<<"a","b","o","u","t">>), Plus(Ch(WS)), Grp(1, Plus(Ch(Dot)))>>),
        Cat(<<LitI(<<"c","o","n","t","a","i","n","i","n","g">>), Plus(Ch(WS)), Grp(1, Plus(Ch(Dot)))>>),
        Cat(<<LitI(<<"t","h","a","t"," ","s","a","y","s">>), Plus(Ch(WS)), Grp(1, Plus(Ch(Dot)))>>),
        Cat(<<LitI(<<"p","a","g","e"," ","c","a","l","l","e","d"," ">>), Plus(Ch(Lower \cup Upper \cup Digit \cup {"_","-"," "})), LitI(<<" ","w","i","t","h"," ","c","o","n","t","e","n","t"," ">>), Grp(1, Plus(Ch(Dot)))>>) >>, input)
  IN IF m1.ok THEN Trim(Group(m1, input, 1))
     ELSE IF /\ (Includes(input, <<"q","u","i","z">>) \/ Includes(input, <<"e","l","e","m","e","n","t">>) \/ Includes(input, <<"c","o","m","p","o","n","e","n","t">>))
             /\ comp.ok
          THEN Trim(Group(comp, input, 1))
     ELSE IF rest.ok THEN Trim(Group(rest, input, 1))
     ELSE Null

extractComponentType(input) ==
  LET componentMap == <<
        <<<<"m","u","l","t","i","p","l","e"," ","c","h","o","i","c","e">>, "multiple-choice">>,
        <<<<"m","u","l","t","i","p","l","e","-","c","h","o","i","c","e">>, "multiple-choice">>,
        <<<<"q","u","i","z">>, "quiz">>,
        <<<<"a","s","s","e","s","s","m","e","n","t">>, "quiz">>,
        <<<<"m","a","t","c","h","i","n","g">>, "matching-question">>,
        <<<<"t","r","u","e"," ","f","a","l","s","e">>, "true-false-question">>,
        <<<<"f","i","l","l"," ","i","n">>, "fill-in-the-blanks">>,
        <<<<"f","l","a","s","h"," ","c","a","r","d">>, "flash-card">>,
        <<<<"c","a","r","o","u","s","e","l">>, "a11y-carousel">>,
        <<<<"t","i","m","e","l","i","n","e">>, "lrndesign-timeline">>,
        <<<<"i","m","a","g","e"," ","m","a","p">>, "lrndesign-imagemap">>,
        <<<<"l","e","s","s","o","n">>, "lesson-overview">>,
        <<<<"c","o","d","e"," ","s","a","m","p","l","e">>, "code-sample">>,
        <<<<"q","u","o","t","e">>, "media-quote">>,
        <<<<"c","i","t","a","t","i","o","n">>, "citation-element">> >>
      input_lower == ToLowerCase(input)
      hits == {k \in 1..Len(componentMap) : Includes(input_lower, componentMap[k][1])}
  IN IF hits # {} THEN componentMap[Least(hits)][2]
     ELSE IF Includes(input_lower, <<"e","l","e","m","e","n","t">>) THEN "generic-element"
     ELSE "null"

extractPageSource(input) ==
  LET m == FirstMatch(<<
        Cat(<<LitI(<<"a","b","o","u","t">>), Plus(Ch(WS)), LitI(<<"t","h","e">>), Plus(Ch(WS)), LitI(<<"c","o","n","t","e","n","t">>), Plus(Ch(WS)), LitI(<<"o","n">>), Plus(Ch(WS)), LitI(<<"p","a","g","e">>), Plus(Ch(WS)), Grp(1, Plus(Ch(Lower \cup Upper \cup Digit \cup WS \cup {"_","-"})))>>),
        Cat(<<LitI(<<"f","r","o","m">>), Plus(Ch(WS)), LitI(<<"p","a","g","e">>), Plus(Ch(WS)), Grp(1, Plus(Ch(Lower \cup Upper \cup Digit \cup WS \cup {"_","-"})))>>),
        Cat(<<LitI(<<"u","s","i","n","g">>), Plus(Ch(WS)), LitI(<<"p","a","g","e">>), Plus(Ch(WS)), Grp(1, Plus(Ch(Lower \cup Upper \cup Digit \cup WS \cup {"_","-"})))>>),
        Cat(<<LitI(<<"b","a","s","e","d">>), Plus(Ch(WS)), LitI(<<"o","n">>), Plus(Ch(WS)), LitI(<<"p","a","g","e">>), Plus(Ch(WS)), Grp(1, Plus(Ch(Lower \cup Upper \cup Digit \cup WS \cup {"_","-"})))>>),
        Cat(<<LitI(<<"o","n">>), Plus(Ch(WS)), LitI(<<"p","a","g","e">>), Plus(Ch(WS)), Grp(1, Plus(Ch(Lower \cup Upper \cup Digit \cup WS \cup {"_","-"})))>>),
        Cat(<<LitI(<<"t","o">>), Plus(Ch(WS)), LitI(<<"t","h","e">>), Plus(Ch(WS)), Grp(1, Plus(Ch(Lower \cup Upper \cup Digit \cup WS \cup {"_","-"}))), Plus(Ch(WS)), LitI(<<"p","a","g","e">>)>>),
        Cat(<<LitI(<<"t","o">>), Plus(Ch(WS)), LitI(<<"p","a","g","e">>), Plus(Ch(WS)), Grp(1, Plus(Ch(Lower \cup Upper \cup Digit \cup WS \cup {"_","-"})))>>),
        Cat(<<LitI(<<"a","d","d">>), Star(Ch(Dot)), LitI(<<"t","o">>), Plus(Ch(WS)), Grp(1, Plus(Ch(Lower \cup Upper \cup Digit \cup WS \cup {"_","-"}))), Eos>>) >>, input)
  IN IF m.ok THEN Trim(Group(m, input, 1)) ELSE Null

extractDomain(input) ==
  LET m == FirstMatch(<<
        Cat(<<Alt(<<LitI(<<"a","t">>), LitI(<<"t","o">>)>>), Plus(Ch(WS)), Grp(1, Cat(<<Plus(Ch(Lower \cup Upper \cup Digit \cup {"-"})), LitI(<<".","s","u","r","g","e",".","s","h">>)>>))>>),
        Cat(<<LitI(<<"d","o","m","a","i","n">>), Plus(Ch(WS)), Grp(1, Cat(<<Plus(Ch(Lower \cup Upper \cup Digit \cup {"-"})), LitI(<<".","s","u","r","g","e",".","s","h">>)>>))>>),
        Cat(<<LitI(<<"u","r","l">>), Plus(Ch(WS)), Grp(1, Cat(<<Plus(Ch(Lower \cup Upper \cup Digit \cup {"-"})), LitI(<<".","s","u","r","g","e",".","s","h">>)>>))>>) >>, input)
  IN IF m.ok THEN Group(m, input, 1) ELSE Null

extractParentPage(input) ==
  LET m == FirstMatch(<<
        Cat(<<LitI(<<"u","n","d","e","r">>), Plus(Ch(WS)), Opt(Cat(<<LitI(<<"t","h","e">>), Plus(Ch(WS))>>)), Grp(1, Plus(Ch(Lower \cup Upper \cup Digit \cup {"_","-"," "}))), Plus(Ch(WS)), LitI(<<"p","a","g","e">>)>>),
        Cat(<<Alt(<<LitI(<<"c","h","i","l","d">>), Cat(<<LitI(<<"s","u","b">>), Opt(LitI(<<"-">>)), LitI(<<"p","a","g","e">>)>>)>>), Plus(Ch(WS)), LitI(<<"o","f">>), Plus(Ch(WS)), Opt(Cat(<<LitI(<<"t","h","e">>), Plus(Ch(WS))>>)), Grp(1, Plus(Ch(Lower \cup Upper \cup Digit \cup {"_","-"," "}))), Opt(Cat(<<Plus(Ch(WS)), LitI(<<"p","a","g","e">>)>>))>>),
        Cat(<<LitI(<<"b","e","n","e","a","t","h">>), Plus(Ch(WS)), Opt(Cat(<<LitI(<<"t","h","e">>), Plus(Ch(WS))>>)), Grp(1, Plus(Ch(Lower \cup Upper \cup Digit \cup {"_","-"," "}))), Plus(Ch(WS)), LitI(<<"p","a","g","e">>)>>),
        Cat(<<LitI(<<"i","n","s","i","d","e">>), Plus(Ch(WS)), Opt(Cat(<<LitI(<<"t","h","e">>), Plus(Ch(WS))>>)), Grp(1, Plus(Ch(Lower \cup Upper \cup Digit \cup {"_","-"," "}))), Plus(Ch(WS)), Alt(<<LitI(<<"p","a","g","e">>), LitI(<<"s","e","c","t","i","o","n">>)>>)>>),
        Cat(<<LitI(<<"a","d","d">>), Plus(Ch(WS)), Opt(Cat(<<LitI(<<"a">>), Plus(Ch(WS))>>)), Opt(Cat(<<LitI(<<"p","a","g","e">>), Plus(Ch(WS))>>)), LitI(<<"c","a","l","l","e","d">>), Plus(Ch(WS)), Plus(Ch(Lower \cup Upper \cup Digit \cup {"_","-"," "})), Plus(Ch(WS)), LitI(<<"t","o">>), Plus(Ch(WS)), Grp(1, Plus(Ch(Lower \cup Upper \cup Digit \cup {"_","-"," "})))>>) >>, input)
  IN IF m.ok THEN Trim(Group(m, input, 1)) ELSE Null

(***************************************************************************)
(* The sentences sent to process(), and the contexts the server builds.    *)
(***************************************************************************)
Sentences == {
  <<"d","e","p","l","o","y"," ","m","y","s","i","t","e">>,
  <<"p","u","t"," ","m","y"," ","p","o","r","t","f","o","l","i","o"," ","o","n","l","i","n","e">>,
  <<"C","r","e","a","t","e"," ","a"," ","s","i","t","e"," ","c","a","l","l","e","d"," ","m","y","-","b","l","o","g">>,
  <<"c","r","e","a","t","e"," ","a"," ","s","i","t","e"," ","c","a","l","l","e","d"," ","m","y","b","l","o","g">>,
  <<"c","r","e","a","t","e"," ","a"," ","s","i","t","e">>,
  <<"a","d","d"," ","a"," ","p","a","g","e"," ","c","a","l","l","e","d"," ","t","e","a","m"," ","u","n","d","e","r"," ","t","h","e"," ","i","n","t","r","o"," ","p","a","g","e">>,
  <<"a","d","d"," ","a"," ","p","a","g","e"," ","c","a","l","l","e","d"," ","o","u","r","-","t","e","a","m"," ","u","n","d","e","r"," ","t","h","e"," ","i","n","t","r","o"," ","p","a","g","e"," ","a","b","o","u","t"," ","s","h","a","r","k","s">>,
  <<"a","d","d"," ","a"," ","p","a","g","e"," ","c","a","l","l","e","d"," ","t","e","a","m">>,
  <<"a","d","d"," ","a"," ","p","a","g","e"," ","c","a","l","l","e","d"," ","f","a","q"," ","a","b","o","u","t"," ","s","h","a","r","k","s">>,
  <<"a","d","d"," ","a"," ","q","u","i","z"," ","a","b","o","u","t"," ","b","i","o","l","o","g","y">>,
  <<"a","d","d"," ","a"," ","q","u","i","z"," ","t","o"," ","t","h","e"," ","i","n","t","r","o"," ","p","a","g","e">>,
  <<"a","d","d"," ","a"," ","q","u","i","z"," ","t","o"," ","t","h","e"," ","a","b","o","u","t"," ","u","s"," ","p","a","g","e">>,
  <<"a","d","d"," ","a"," ","q","u","i","z"," ","a","b","o","u","t"," ","s","h","a","r","k","s"," ","t","o"," ","t","h","e"," ","i","n","t","r","o"," ","p","a","g","e">>,
  <<"a","d","d"," ","a"," ","c","a","r","o","u","s","e","l">>,
  <<"a","d","d"," ","a"," ","c","a","r","o","u","s","e","l"," ","t","o"," ","t","h","e"," ","g","a","l","l","e","r","y"," ","p","a","g","e">>,
  <<"a","d","d"," ","a"," ","f","l","a","s","h","c","a","r","d">>,
  <<"m","a","k","e"," ","a"," ","s","l","i","d","e","d","e","c","k"," ","a","b","o","u","t"," ","e","a","g","l","e","s">>,
  <<"c","u","s","t","o","m","i","z","e"," ","t","h","e"," ","i","n","t","r","o"," ","p","a","g","e"," ","f","o","r"," ","c","a","t","s">>,
  <<"c","l","o","n","e"," ","h","t","t","p","s",":","/","/","x",".","y","/","z"," ","a","s"," ","n","e","w","s","i","t","e">>,
  <<"c","l","o","n","e"," ","h","t","t","p","s",":","/","/","x",".","y","/","z"," ","a","s"," ","m","y","s","i","t","e">>,
  <<"i","m","p","o","r","t"," ","h","t","t","p","s",":","/","/","x",".","y","/","z">>,
  <<"a","d","d"," ","c","o","n","t","a","c","t"," ","a","n","d"," ","a","b","o","u","t"," ","p","a","g","e","s">>,
  <<"s","h","o","w"," ","m","e"," ","a","l","l"," ","m","y"," ","s","i","t","e","s">>,
  <<"p","r","e","v","i","e","w"," ","m","y"," ","s","i","t","e">>,
  <<"e","d","i","t"," ","t","h","e"," ","a","b","o","u","t"," ","p","a","g","e">>,
  <<"h","e","l","p">>,
  <<"h","e","l","l","o"," ","t","h","e","r","e">>,
  <<"p","u","b","l","i","s","h"," ","m","y"," ","s","i","t","e"," ","t","o"," ","m","y","b","l","o","g",".","s","u","r","g","e",".","s","h">>,
  <<"a","d","d"," ","a"," ","c","a","r","o","u","s","e","l"," ","t","o"," ","t","h","e"," ","i","n","t","r","o"," ","p","a","g","e">>,
  <<"a","d","d"," ","a"," ","m","u","l","t","i","p","l","e","-","c","h","o","i","c","e"," ","q","u","i","z"," ","t","o"," ","t","h","e"," ","i","n","t","r","o"," ","p","a","g","e">>,
  <<"c","r","e","a","t","e"," ","a"," ","p","a","g","e"," ","c","a","l","l","e","d"," ","n","e","w","s"," ","f","o","r"," ","m","y"," ","s","i","t","e">>,
  <<"a","d","d"," ","a"," ","p","a","g","e"," ","c","a","l","l","e","d"," ","t","e","a","m"," ","u","n","d","e","r"," ","t","h","e"," ","p","r","i","c","i","n","g"," ","p","a","g","e">>,
  <<"c","u","s","t","o","m","i","z","e"," ","t","h","e"," ","d","o","g","s"," ","p","a","g","e"," ","f","o","r"," ","c","a","t","s">>,
  <<>> }

SitesDir == <<"/","s","i","t","e","s">>

Undefined == [valid |-> FALSE, currentSite |-> Null, availableSites |-> <<>>, sitesDir |-> Null]

Contexts ==
  { [valid |-> TRUE, currentSite |-> <<"m","y","s","i","t","e">>, availableSites |-> <<<<"m","y","s","i","t","e">>, <<"p","o","r","t","f","o","l","i","o">>>>, sitesDir |-> SitesDir],
    [valid |-> TRUE, currentSite |-> Null, availableSites |-> <<<<"m","y","s","i","t","e">>, <<"p","o","r","t","f","o","l","i","o">>, <<"x","-","y","-","c","l","o","n","e","-","0","0","0","0">>>>,
     sitesDir |-> SitesDir],
    [valid |-> TRUE, currentSite |-> Null, availableSites |-> <<>>, sitesDir |-> SitesDir],
    Undefined }

Inputs == Sentences \cup {Null}

AvailableSiteLists == {c.availableSites : c \in Contexts}

(***************************************************************************)
(* The state: the fields of the SmartAIProcessor the server holds, the     *)
(* page files of the sites on disk, and the position of the one call of    *)
(* process() in progress (the server awaits each call).                    *)
(***************************************************************************)
VARIABLES
  variant,             \* "orig": lib/ai-processorORIG.js; "later": unnamed/part_001;
                       \* "first": unnamed/part_000, for its helpers only
  hasAPIKey,           \* this.hasAPIKey
  initialized,         \* this.initialized (later variant)
  conversationHistory, \* this.conversationHistory; the content of an entry is the number of its call
  files,               \* <<site, location>> -> body of the page file
  parsed,              \* sentence -> Parse(sentence)
  pc,                  \* "idle", "patterns", "ai", "fallback", "done"
  request,             \* the arguments of the call in progress: process(message.trim(), fullContext)
  fullContext,
  patternResult,       \* the plan processWithPatterns returned last in this call
  result,              \* the plan process() returns
  probe,               \* outcome of the last surge whoami of this call: "none", "ok", "failed"
  steps,               \* what this call has done so far, in order: "patterns", "ai" (the provider
                       \* answered), and "patterns:threw", "prompt:threw", "ai:threw"
  calls,               \* calls of process() so far
  sent,                \* the turns before the user's, in the messages of the provider request of this call
  envKeys,             \* process.env holds an API key
  access,              \* the last request to the file endpoints and the path it read or wrote
  resources,           \* the last call of buildResourcesSummary: its context, the folder, the summary
  helper,              \* a call of one of the engine's helpers: its name, its argument, its value
  serve                \* server.js: runningProcesses and the serve processes spawned so far

vars == <<variant, hasAPIKey, initialized, conversationHistory, files, parsed, pc,
          request, fullContext, patternResult, result, probe, steps, calls, sent, envKeys,
          access, resources, helper, serve>>

(***************************************************************************)
(* Plans.  A plan is the object a handler returns.  explanation and        *)
(* nextSteps hold the opening words of the text; a command is its template *)
(* with the values interpolated into it.  The fields raised, probe, wrote  *)
(* and inlineAI are not fields of the object: raised names the exception   *)
(* that left the handler instead of a plan, the others record what the     *)
(* handler did on the way.                                                 *)
(***************************************************************************)
Cmd(template, args) == [template |-> template, args |-> args]

\* the commands that are written as template literals of several lines: node -e "
\* followed by the lines of the script that patches site.json
MultiLineTemplates ==
  {"node -e set the parent of ${pageTitle} to ${parentPage.toLowerCase()}",
   "node -e set the parent of ${sanitizedTitle} to ${parentPageTitle}"}

NoWrite == [site |-> Null, location |-> Null, content |-> "none"]

Plan(explanation, commands, success) ==
  [explanation |-> explanation, commands |-> commands, success |-> success,
   error |-> "none", action |-> "none", suggestions |-> <<>>, suggestion |-> "none",
   examples |-> <<>>,
   nextSteps |-> "none", aiProcessed |-> FALSE,
   raised |-> "none", probe |-> "none", wrote |-> NoWrite, inlineAI |-> 0]

\* throw new Error(message)
Throw(message) == [Plan("none", <<>>, FALSE) EXCEPT !.raised = message]

\* Date.now(), printed
Now == <<"1","7","0","0","0","0","0","0","0","0","0","0","0">>

validateNames(siteName, pageTitle) ==
  IF ~Falsy(siteName) /\ ~Test(Cat(<<Bos, Plus(Ch(Lower \cup Upper \cup Digit \cup {"_"})), Eos>>), siteName)
  THEN "Invalid site name. Use only letters, numbers, and underscores."
  ELSE IF ~Falsy(pageTitle) /\ ~Test(Cat(<<Bos, Plus(Ch(Lower \cup Upper \cup Digit \cup WS \cup {"_","?",",","-"})), Eos>>), pageTitle)
  THEN "Invalid page title '${pageTitle}'. Use only letters, numbers, spaces, underscores, hyphens, commas, and question marks."
  ELSE "none"

askForSiteSelection(availableSites, action) ==
  IF Len(availableSites) = 0
  THEN [Plan("You don't have any sites yet.", <<>>, TRUE)
          EXCEPT !.suggestion = "Try: Create a site called my-first-site"]
  ELSE IF Len(availableSites) = 1
  THEN Plan("I'll ${action} your ${availableSites[0]} site.", <<>>, TRUE)
  ELSE Plan("Which site would you like to ${action}?", <<>>, TRUE)

getHelpResponse ==
  Plan("I can help you build websites with simple commands!", <<>>, TRUE)

getDefaultResponse(input) ==
  LET suggestions == <<"Create a site called my-blog", "Add a page called About",
                       "Show me all my sites", "Preview my site", "Publish my site">>
  IN [Plan("I'm not sure exactly what you want to do", <<>>, TRUE)
        EXCEPT !.suggestions = suggestions]

\* a || b
Or(a, b) == IF Falsy(a) THEN b ELSE a

handleDeployment(x, context, env) ==
  LET availableSites == context.availableSites
      currentSite == context.currentSite
      sitesDir == context.sitesDir
      siteName == Or(x.siteFromInput[availableSites], currentSite)
      domain == siteName \o <<"-">> \o Now \o <<".","s","u","r","g","e",".","s","h">>
  IN IF Falsy(siteName) THEN askForSiteSelection(availableSites, "deploy")
     ELSE IF env.surge = "ok"
     THEN [Plan("I'll deploy your site to Surge.sh",
                <<Cmd("cd ${sitesDir}/${siteName}", <<sitesDir, siteName>>),
                  Cmd("echo Building site for deployment...", <<>>),
                  Cmd("hax site build", <<>>),
                  Cmd("echo Deploying to ${domain}...", <<domain>>),
                  Cmd("hax site site:surge --domain ${domain} --no-i", <<domain>>)>>, TRUE)
             EXCEPT !.nextSteps = "Once deployed, your site will be live",
                    !.action = "deploy_site",
                    !.probe = "ok"]
     ELSE [Plan("Surge.sh authentication required.", <<>>, FALSE)
             EXCEPT !.nextSteps = "To deploy sites to the web, you need to setup Surge.sh",
                    !.examples = <<"Setup Steps:", "1. Create account at https://surge.sh",
                                   "2. Run: surge login", "3. Enter your Surge credentials",
                                   "4. Then try deploying again!">>,
                    !.probe = "failed"]

handlePublish(x, context) ==
  LET availableSites == context.availableSites
      currentSite == context.currentSite
      sitesDir == context.sitesDir
      siteName == Or(x.siteFromInput[availableSites], currentSite)
      customDomain == x.domain
      domain == Or(customDomain, siteName \o <<"-">> \o Now \o <<".","s","u","r","g","e",".","s","h">>)
  IN IF Falsy(siteName) THEN askForSiteSelection(availableSites, "publish")
     ELSE [Plan("I'll publish your site to the web using Surge.",
                <<Cmd("cd ${sitesDir}/${siteName} && npm run build", <<sitesDir, siteName>>),
                  Cmd("cd ${sitesDir}/${siteName}/dist && surge . ${domain}", <<sitesDir, siteName, domain>>)>>,
                TRUE)
             EXCEPT !.action = "deploy",
                    !.nextSteps = "Once published, your site will be live"]

handleCreateSite(x, sitesDir) ==
  LET siteName == x.siteName
      invalid == validateNames(siteName, Null)
      theme == IF Includes(ToLowerCase(x.input), <<"p","e","n","n"," ","s","t","a","t","e"," ","s","i","t","e">>)
               THEN <<Cmd("hax site site:theme --theme polaris-flex-theme", <<>>)>> ELSE <<>>
  IN IF Falsy(siteName)
     THEN [Plan("I'd be happy to create a site for you! What would you like to call it?", <<>>, TRUE)
             EXCEPT !.examples = <<"Create a site called my-blog",
                                   "Make a portfolio site called john-portfolio",
                                   "Create a business site called my-bakery">>]
     ELSE IF invalid # "none" THEN Throw(invalid)
     ELSE [Plan("I'll create a new HAX site",
                <<Cmd("hax site start --name ${siteName} --y", <<siteName>>)>> \o theme, TRUE)
             EXCEPT !.nextSteps = "Great! Once created, you can add pages",
                    !.action = "create-site"]

handleListContent(x, context) ==
  LET availableSites == context.availableSites
      sitesDir == context.sitesDir
      siteName == x.siteFromInput[availableSites]
  IN IF Includes(x.input, <<"s","i","t","e">>)
     THEN IF Len(availableSites) = 0
          THEN [Plan("You don't have any sites yet!", <<>>, TRUE)
                  EXCEPT !.suggestion = "Try: Create a site called my-first-site"]
          ELSE [Plan("You have ${availableSites.length} site(s)", <<>>, TRUE)
                  EXCEPT !.action = "list-sites"]
     ELSE IF Includes(x.input, <<"p","a","g","e">>)
     THEN IF Falsy(siteName) THEN askForSiteSelection(availableSites, "list pages from")
          ELSE [Plan("I'll show you all the pages",
                     <<Cmd("cat ${sitesDir}/${siteName}/site.json", <<sitesDir, siteName>>)>>, TRUE)
                  EXCEPT !.action = "list-pages"]
     ELSE getDefaultResponse(x.input)

handlePreview(x, context) ==
  LET availableSites == context.availableSites
      currentSite == context.currentSite
      sitesDir == context.sitesDir
      siteName == Or(x.siteFromInput[availableSites], currentSite)
  IN IF Falsy(siteName) THEN askForSiteSelection(availableSites, "preview")
     ELSE [Plan("I'll start a preview server",
                <<Cmd("hax serve --path ${sitesDir}/${siteName}", <<sitesDir, siteName>>)>>, TRUE)
             EXCEPT !.action = "serve",
                    !.nextSteps = "The preview will open in a new browser tab."]

handleEdit(x, context) ==
  LET availableSites == context.availableSites
      currentSite == context.currentSite
      sitesDir == context.sitesDir
      siteName == Or(x.siteFromInput[availableSites], currentSite)
      pageTitle == x.pageTitle
  IN IF Falsy(siteName) THEN askForSiteSelection(availableSites, "edit content in")
     ELSE IF Falsy(pageTitle)
     THEN [Plan("Which page would you like to edit?", <<>>, TRUE)
             EXCEPT !.examples = <<"Edit the About page in ${siteName}",
                                   "Change the homepage content", "Update the contact page">>]
     ELSE [Plan("I'll help you edit the page",
                <<Cmd("cat ${sitesDir}/${siteName}/site.json", <<sitesDir, siteName>>)>>, TRUE)
             EXCEPT !.action = "edit-page"]

(***************************************************************************)
(* The site directories on disk.  Every site holds the same manifest       *)
(* (site.json) at the start; the variable files maps <<site, location>> to *)
(* the body of the page file, a sequence of chunks of text.                *)
(***************************************************************************)
SitesOnDisk == {<<"m","y","s","i","t","e">>, <<"p","o","r","t","f","o","l","i","o">>}

Items == <<
  [title |-> <<"I","n","t","r","o">>, slug |-> <<"i","n","t","r","o">>, location |-> "pages/intro/index.html"],
  [title |-> <<"A","b","o","u","t"," ","U","s">>, slug |-> <<"a","b","o","u","t","-","u","s">>, location |-> "pages/about-us/index.html"] >>

\* the chunks of a body that are whitespace; a chunk of text is not divided
Blank == {"\n", " ", "\t"}

\* body.trim(), on chunks
TrimBody(body) ==
  LET keep == {i \in 1..Len(body) : body[i] \notin Blank}
  IN IF keep = {} THEN <<>> ELSE SubSeq(body, Least(keep), Most(keep))

\* text whose characters are not modelled
Opaque(tag) == <<tag>>

\* s.charAt(0).toUpperCase() + s.slice(1)
Capitalize(s) ==
  IF Len(s) = 0 THEN s
  ELSE <<IF s[1] \in Lower THEN CHOOSE u \in Upper : LowerOf[u] = s[1] ELSE s[1]>> \o Tail(s)

\* generateQuizFromPrompt, generateQuizFromPageContent: the provider's quiz when a
\* key is configured and the call succeeds, the template quiz otherwise
generateQuiz(env) ==
  IF hasAPIKey /\ env.ai = "ok" THEN "quiz by the provider" ELSE "template quiz"

\* the write of addComponentToExistingPage, were it to put the component in place of the body
appendComponent_replaces(currentContent, componentContent) ==
  <<componentContent>>

\* currentContent.trim() + '\n\n' + componentContent
appendComponent(currentContent, componentContent) ==
  TrimBody(currentContent) \o <<"\n", "\n", componentContent>>

addComponentToExistingPage(siteName, pageName, componentContent, componentType, sitesDir, env) ==
  LET name == ToLowerCase(pageName)
      exact == {k \in 1..Len(Items) :
                  \/ ToLowerCase(Items[k].title) = name
                  \/ ToLowerCase(Items[k].slug) = ReplaceSpaces(name)}
      part == {k \in 1..Len(Items) : Includes(ToLowerCase(Items[k].title), name)}
      pageItem == IF exact # {} THEN Items[Least(exact)] ELSE Items[Least(part)]
      currentContent == files[<<siteName, pageItem.location>>]
      updatedContent == appendComponent(currentContent, componentContent)
  IN IF siteName \notin SitesOnDisk \/ env.siteJson # "ok"
     THEN [Plan("I couldn't read the site.json file", <<>>, FALSE)
             EXCEPT !.error = "Site data not found"]
     ELSE IF exact = {} /\ part = {}
     THEN [Plan("I couldn't find a page named", <<>>, FALSE)
             EXCEPT !.error = "Page not found",
                    !.suggestions = <<"List all pages to see available page names",
                                      "Try using one of these page names">>]
     ELSE IF env.pageFile # "ok"
     THEN [Plan("Found the page but couldn't read its content file.", <<>>, FALSE)
             EXCEPT !.error = "File read error"]
     ELSE IF env.write # "ok"
     THEN [Plan("Sorry, I couldn't add the component", <<>>, FALSE)
             EXCEPT !.error = "EACCES: permission denied"]
     ELSE [Plan("Successfully added the component to your existing page", <<>>, TRUE)
             EXCEPT !.action = "add_${componentType}_to_page",
                    !.nextSteps = "Preview your site to see it in action.",
                    !.wrote = [site |-> siteName, location |-> pageItem.location,
                               content |-> updatedContent]]

handleCreateQuiz(x, context, siteName, pageSource, contentPrompt, env) ==
  LET sitesDir == context.sitesDir
      quizContent == generateQuiz(env)
      added == addComponentToExistingPage(siteName, pageSource, quizContent, "quiz", sitesDir, env)
  IN IF Falsy(pageSource)
     THEN [Plan("To add a quiz, you need to specify which page to add it to.", <<>>, FALSE)
             EXCEPT !.error = "Target page not specified",
                    !.suggestions = <<"Add a multiple choice quiz about sharks to the marine life page",
                                      "Add a quiz about the content on the history page",
                                      "Add a multiple choice quiz about biology to the science page">>]
     ELSE [added EXCEPT !.inlineAI = IF hasAPIKey THEN 1 ELSE 0]

handleCreateGeneralComponent(x, context, siteName, componentType, pageSource, contentPrompt, env) ==
  LET sitesDir == context.sitesDir
      componentName ==
        CASE componentType = "a11y-carousel" -> <<"i","m","a","g","e"," ","c","a","r","o","u","s","e","l">>
          [] componentType = "lrndesign-timeline" -> <<"t","i","m","e","l","i","n","e">>
          [] componentType = "lrndesign-imagemap" -> <<"i","n","t","e","r","a","c","t","i","v","e"," ","i","m","a","g","e"," ","m","a","p">>
          [] componentType = "lesson-overview" -> <<"l","e","s","s","o","n"," ","o","v","e","r","v","i","e","w">>
          [] componentType = "code-sample" -> <<"c","o","d","e"," ","s","a","m","p","l","e">>
          [] componentType = "media-quote" -> <<"m","e","d","i","a"," ","q","u","o","t","e">>
          [] componentType = "citation-element" -> <<"c","i","t","a","t","i","o","n">>
          [] componentType = "matching-question" -> <<"m","a","t","c","h","i","n","g","-","q","u","e","s","t","i","o","n">>
          [] componentType = "true-false-question" -> <<"t","r","u","e","-","f","a","l","s","e","-","q","u","e","s","t","i","o","n">>
          [] componentType = "fill-in-the-blanks" -> <<"f","i","l","l","-","i","n","-","t","h","e","-","b","l","a","n","k","s">>
          [] componentType = "flash-card" -> <<"f","l","a","s","h","-","c","a","r","d">>
          [] OTHER -> <<"g","e","n","e","r","i","c","-","e","l","e","m","e","n","t">>
      componentContent == "content of the component"
      pageTitle == Capitalize(componentName)
  IN IF ~Falsy(pageSource)
     THEN addComponentToExistingPage(siteName, pageSource, componentContent, componentName, sitesDir, env)
     ELSE [Plan("I'll create a component page",
                <<Cmd("cd ${sitesDir}/${siteName}", <<sitesDir, siteName>>),
                  Cmd("hax site node:add --node-op create --title ${pageTitle} --content ${componentContent} --y",
                      <<pageTitle, Opaque(componentContent)>>)>>, TRUE)
             EXCEPT !.action = "create_component",
                    !.nextSteps = "Component created!"]

handleAddWebComponent(x, context, env) ==
  LET availableSites == context.availableSites
      currentSite == context.currentSite
      siteName == Or(x.siteFromInput[availableSites], currentSite)
      componentType == x.componentType
      pageSource == x.pageSource
      contentPrompt == x.content
  IN IF Falsy(siteName) THEN askForSiteSelection(availableSites, "add a web component to")
     ELSE IF componentType = "null"
     THEN [Plan("I couldn't determine what type of component you want to create.", <<>>, FALSE)
             EXCEPT !.error = "Unknown component type",
                    !.suggestions = <<"Add a multiple choice quiz about the content on page X",
                                      "Create a timeline for the history page",
                                      "Add a carousel to the gallery page",
                                      "Make a flash card quiz about biology terms">>]
     ELSE IF componentType = "quiz" \/ componentType = "multiple-choice"
     THEN handleCreateQuiz(x, context, siteName, pageSource, contentPrompt, env)
     ELSE handleCreateGeneralComponent(x, context, siteName, componentType, pageSource, contentPrompt, env)

\* the text of the command that patches the manifest: `node -e "..."`, a script of
\* fourteen lines that looks the parent up by '${parentPage.toLowerCase()}' (title
\* or slug) and the child by '${pageTitle}'
updateParentCommand(parentPage, pageTitle) ==
  LET parent == IF Falsy(parentPage) THEN <<>> ELSE ToLowerCase(parentPage)
  IN Cmd("node -e set the parent of ${pageTitle} to ${parentPage.toLowerCase()}",
         <<parent, parent, pageTitle>>)

generateAIContentForChildPage(pageTitle, siteName, contentPrompt, sitesDir, workflowType, parentPage, env) ==
  LET fallback == Cmd("hax site node:add --node-op create --title ${pageTitle} --content ${content} --y",
                      <<pageTitle, Opaque("three paragraphs")>>)
      generated == Cmd("hax site node:add --node-op create --title ${pageTitle} --content ${escapeQuotes(aiResponse)} --y",
                       <<pageTitle, Opaque("content by the provider")>>)
  IN IF ~hasAPIKey
     THEN [Plan("I'll add a new child page with content",
                <<fallback, updateParentCommand(parentPage, pageTitle)>>, TRUE)
             EXCEPT !.nextSteps = "Child page created with content!",
                    !.action = workflowType]
     ELSE IF env.ai = "ok"
     THEN [Plan("I'll add a new child page with AI-generated content",
                <<generated, updateParentCommand(parentPage, pageTitle)>>, TRUE)
             EXCEPT !.nextSteps = "Child page created with AI content!",
                    !.action = workflowType,
                    !.inlineAI = 1]
     ELSE [Plan("I'll add a new child page with content",
                <<fallback, updateParentCommand(parentPage, pageTitle)>>, TRUE)
             EXCEPT !.nextSteps = "Child page created with content!",
                    !.action = workflowType,
                    !.inlineAI = 1]

handleAddPage(x, context, env) ==
  LET availableSites == context.availableSites
      currentSite == context.currentSite
      sitesDir == context.sitesDir
      pageTitle == x.pageTitle
      siteName == Or(x.siteFromInput[availableSites], currentSite)
      invalid == validateNames(siteName, pageTitle)
      parentPage == x.parentPage
      contentPrompt == x.content
      child == ~Falsy(parentPage) /\ ~Falsy(Trim(parentPage))
      workflowType ==
        IF Falsy(contentPrompt)
        THEN (IF child THEN "add_child_page" ELSE "add_page")
        ELSE (IF ~Falsy(parentPage) THEN "add_child_page_with_content" ELSE "add_page_with_content")
      command ==
        IF Falsy(contentPrompt)
        THEN Cmd("hax site node:add --node-op create --title ${pageTitle} --y", <<pageTitle>>)
        ELSE Cmd("hax site node:add --node-op create --title ${pageTitle} --content ${content} --y",
                 <<pageTitle, Opaque("three paragraphs")>>)
  IN IF Falsy(siteName) THEN askForSiteSelection(availableSites, "add a page to")
     ELSE IF Falsy(pageTitle)
     THEN [Plan("What would you like to call the new page?", <<>>, TRUE)
             EXCEPT !.examples = <<"Add a page called About to ${siteName}",
                                   "Create a contact page in ${siteName}",
                                   "Add a blog post called My First Post">>]
     ELSE IF invalid # "none" THEN Throw(invalid)
     ELSE IF /\ ~Falsy(contentPrompt)
             /\ hasAPIKey
             /\ (Includes(x.input, <<"w","i","t","h"," ","c","o","n","t","e","n","t">>) \/ Includes(x.input, <<"a","b","o","u","t">>))
     THEN generateAIContentForChildPage(pageTitle, siteName, contentPrompt, sitesDir,
                                        workflowType, parentPage, env)
     ELSE IF child
     THEN [Plan("I'll add a new child page", <<command, updateParentCommand(parentPage, pageTitle)>>, TRUE)
             EXCEPT !.nextSteps = "Child page created!",
                    !.action = workflowType]
     ELSE [Plan("I'll add a new page", <<command>>, TRUE)
             EXCEPT !.nextSteps = "Page added!",
                    !.action = workflowType]

extractMultiplePageTitles(input) ==
  LET m == FirstMatch(<<
        Cat(<<LitI(<<"a","d","d">>), Plus(Ch(WS)), LitI(<<"a">>), Plus(Ch(WS)), Grp(1, Plus(Ch(WordCh))), Plus(Ch(WS)), LitI(<<"p","a","g","e">>), Plus(Ch(WS)), LitI(<<"a","n","d">>), Plus(Ch(WS)), Opt(LitI(<<"a">>)), Star(Ch(WS)), Grp(2, Plus(Ch(WordCh))), Plus(Ch(WS)), LitI(<<"p","a","g","e">>)>>),
        Cat(<<LitI(<<"a","d","d">>), Plus(Ch(WS)), Grp(1, Plus(Ch(WordCh))), Plus(Ch(WS)), LitI(<<"a","n","d">>), Plus(Ch(WS)), Grp(2, Plus(Ch(WordCh))), Plus(Ch(WS)), LitI(<<"p","a","g","e">>), Opt(LitI(<<"s">>))>>),
        Cat(<<LitI(<<"c","r","e","a","t","e">>), Plus(Ch(WS)), Grp(1, Plus(Ch(WordCh))), Plus(Ch(WS)), LitI(<<"a","n","d">>), Plus(Ch(WS)), Grp(2, Plus(Ch(WordCh))), Plus(Ch(WS)), LitI(<<"p","a","g","e">>), Opt(LitI(<<"s">>))>>) >>, input)
      seps == MatchAll(Cat(<<Plus(Ch(WS)), LitI(<<"a","n","d">>), Plus(Ch(WS))>>), input, 1)
      parts == <<SubSeq(input, 1, seps[1].start - 1), SubSeq(input, seps[1].end, Len(input))>>
      pageMatch(part) == Exec(Cat(<<Opt(Alt(<<LitI(<<"a","d","d">>), LitI(<<"c","r","e","a","t","e">>)>>)), Star(Ch(WS)), Opt(Cat(<<LitI(<<"a">>), Plus(Ch(WS))>>)), Grp(1, Plus(Ch(WordCh))), Star(Ch(WS)), LitI(<<"p","a","g","e">>)>>), part)
      found == SelectSeq(parts, LAMBDA part : pageMatch(part).ok)
  IN IF m.ok THEN <<Trim(Group(m, input, 1)), Trim(Group(m, input, 2))>>
     ELSE IF Len(seps) = 1
     THEN [k \in 1..Len(found) |-> Trim(Group(pageMatch(found[k]), found[k], 1))]
     ELSE <<>>

extractMultiplePageContents(input) ==
  LET ms == MatchAll(Cat(<<Grp(1, Plus(Ch(WordCh))), Plus(Ch(WS)), LitI(<<"p","a","g","e">>), Plus(Ch(WS)), LitI(<<"a","b","o","u","t">>), Plus(Ch(WS)), Grp(2, LazyPlus(Ch(Alphabet \ ({"a"})))), Alt(<<Cat(<<Plus(Ch(WS)), LitI(<<"a","n","d">>), Plus(Ch(WS)), Opt(LitI(<<"a">>)), Star(Ch(WS))>>), Eos>>)>>), input, 1)
  IN [k \in 1..Len(ms) |-> [pageTitle |-> Trim(Group(ms[k], input, 1)),
                            content |-> Trim(Group(ms[k], input, 2))]]

extractSlidedeckTopic(input) ==
  LET m == FirstMatch(<<
        Cat(<<Alt(<<LitI(<<"m","a","k","e">>), LitI(<<"c","r","e","a","t","e">>), LitI(<<"b","u","i","l","d">>), LitI(<<"g","e","n","e","r","a","t","e">>)>>), Plus(Ch(WS)), Opt(LitI(<<"a">>)), Star(Ch(WS)), LitI(<<"s","l","i","d","e","d","e","c","k">>), Plus(Ch(WS)), LitI(<<"a","b","o","u","t">>), Plus(Ch(WS)), Grp(1, Plus(Ch(Dot)))>>),
        Cat(<<Alt(<<LitI(<<"m","a","k","e">>), LitI(<<"c","r","e","a","t","e">>), LitI(<<"b","u","i","l","d">>), LitI(<<"g","e","n","e","r","a","t","e">>)>>), Plus(Ch(WS)), LitI(<<"s","l","i","d","e","s">>), Plus(Ch(WS)), LitI(<<"a","b","o","u","t">>), Plus(Ch(WS)), Grp(1, Plus(Ch(Dot)))>>),
        Cat(<<Alt(<<LitI(<<"m","a","k","e">>), LitI(<<"c","r","e","a","t","e">>), LitI(<<"b","u","i","l","d">>), LitI(<<"g","e","n","e","r","a","t","e">>)>>), Plus(Ch(WS)), LitI(<<"s","l","i","d","e","s">>), Plus(Ch(WS)), LitI(<<"f","o","r">>), Plus(Ch(WS)), Grp(1, Plus(Ch(Dot)))>>),
        Cat(<<Alt(<<LitI(<<"m","a","k","e">>), LitI(<<"c","r","e","a","t","e">>), LitI(<<"b","u","i","l","d">>), LitI(<<"g","e","n","e","r","a","t","e">>)>>), Plus(Ch(WS)), Opt(LitI(<<"a">>)), Star(Ch(WS)), LitI(<<"p","r","e","s","e","n","t","a","t","i","o","n">>), Plus(Ch(WS)), LitI(<<"a","b","o","u","t">>), Plus(Ch(WS)), Grp(1, Plus(Ch(Dot)))>>),
        Cat(<<LitI(<<"s","l","i","d","e","d","e","c","k">>), Plus(Ch(WS)), LitI(<<"a","b","o","u","t">>), Plus(Ch(WS)), Grp(1, Plus(Ch(Dot)))>>),
        Cat(<<LitI(<<"s","l","i","d","e","s">>), Plus(Ch(WS)), LitI(<<"a","b","o","u","t">>), Plus(Ch(WS)), Grp(1, Plus(Ch(Dot)))>>),
        Cat(<<LitI(<<"s","l","i","d","e","s">>), Plus(Ch(WS)), LitI(<<"f","o","r">>), Plus(Ch(WS)), Grp(1, Plus(Ch(Dot)))>>),
        Cat(<<LitI(<<"p","r","e","s","e","n","t","a","t","i","o","n">>), Plus(Ch(WS)), LitI(<<"a","b","o","u","t">>), Plus(Ch(WS)), Grp(1, Plus(Ch(Dot)))>>) >>, input)
  IN IF m.ok THEN Trim(Group(m, input, 1)) ELSE Null

extractCustomizationDetails(input) ==
  LET m == FirstMatch(<<
        Cat(<<LitI(<<"c","u","s","t","o","m","i","z","e">>), Plus(Ch(WS)), Opt(Cat(<<LitI(<<"t","h","e">>), Plus(Ch(WS))>>)), Grp(1, LazyPlus(Ch(Dot))), Plus(Ch(WS)), LitI(<<"p","a","g","e">>), Plus(Ch(WS)), Opt(Cat(<<LitI(<<"a","n","d">>), Plus(Ch(WS))>>)), LitI(<<"m","a","k","e">>), Plus(Ch(WS)), LitI(<<"i","t">>), Plus(Ch(WS)), LitI(<<"a","b","o","u","t">>), Plus(Ch(WS)), Grp(2, Plus(Ch(Dot)))>>),
        Cat(<<LitI(<<"c","u","s","t","o","m","i","z","e">>), Plus(Ch(WS)), Opt(Cat(<<LitI(<<"t","h","e">>), Plus(Ch(WS))>>)), Grp(1, LazyPlus(Ch(Dot))), Plus(Ch(WS)), LitI(<<"p","a","g","e">>), Plus(Ch(WS)), LitI(<<"f","o","r">>), Plus(Ch(WS)), Grp(2, Plus(Ch(Dot)))>>),
        Cat(<<LitI(<<"a","d","a","p","t">>), Plus(Ch(WS)), Opt(Cat(<<LitI(<<"t","h","e">>), Plus(Ch(WS))>>)), Grp(1, LazyPlus(Ch(Dot))), Plus(Ch(WS)), LitI(<<"p","a","g","e">>), Plus(Ch(WS)), LitI(<<"f","o","r">>), Plus(Ch(WS)), Grp(2, Plus(Ch(Dot)))>>),
        Cat(<<LitI(<<"m","o","d","i","f","y">>), Plus(Ch(WS)), Opt(Cat(<<LitI(<<"t","h","e">>), Plus(Ch(WS))>>)), Grp(1, LazyPlus(Ch(Dot))), Plus(Ch(WS)), LitI(<<"p","a","g","e">>), LazyStar(Ch(Dot)), Alt(<<LitI(<<"f","o","r">>), LitI(<<"a","b","o","u","t">>), Cat(<<LitI(<<"t","o">>), Plus(Ch(WS)), LitI(<<"b","e">>), Plus(Ch(WS)), LitI(<<"a","b","o","u","t">>)>>)>>), Plus(Ch(WS)), Grp(2, Plus(Ch(Dot)))>>),
        Cat(<<LitI(<<"c","h","a","n","g","e">>), Plus(Ch(WS)), Opt(Cat(<<LitI(<<"t","h","e">>), Plus(Ch(WS))>>)), Grp(1, LazyPlus(Ch(Dot))), Plus(Ch(WS)), LitI(<<"p","a","g","e">>), LazyStar(Ch(Dot)), LitI(<<"t","o">>), Plus(Ch(WS)), LitI(<<"b","e">>), Plus(Ch(WS)), LitI(<<"a","b","o","u","t">>), Plus(Ch(WS)), Grp(2, Plus(Ch(Dot)))>>),
        Cat(<<LitI(<<"c","u","s","t","o","m","i","z","e">>), Plus(Ch(WS)), Opt(Cat(<<LitI(<<"t","h","e">>), Plus(Ch(WS))>>)), Grp(1, LazyPlus(Ch(Dot))), Plus(Ch(WS)), Opt(Cat(<<LitI(<<"a","n","d">>), Plus(Ch(WS))>>)), Opt(Cat(<<LitI(<<"m","a","k","e">>), Plus(Ch(WS)), LitI(<<"i","t">>), Plus(Ch(WS))>>)), Opt(Cat(<<LitI(<<"a","b","o","u","t">>), Plus(Ch(WS))>>)), Grp(2, Plus(Ch(Dot)))>>) >>, input)
  IN IF m.ok THEN [pageName |-> Trim(Group(m, input, 1)), customization |-> Trim(Group(m, input, 2))]
     ELSE [pageName |-> Null, customization |-> Null]

extractCloneInfo(input) ==
  LET m == FirstMatch(<<
        Cat(<<Alt(<<LitI(<<"c","r","e","a","t","e">>), LitI(<<"m","a","k","e">>), LitI(<<"b","u","i","l","d">>)>>), Plus(Ch(WS)), Opt(Cat(<<LitI(<<"a">>), Plus(Ch(WS))>>)), Opt(Cat(<<LitI(<<"n","e","w">>), Plus(Ch(WS))>>)), LitI(<<"s","i","t","e">>), Plus(Ch(WS)), Opt(Cat(<<LitI(<<"c","o","p","y","i","n","g">>), Plus(Ch(WS))>>)), LitI(<<"f","r","o","m">>), Plus(Ch(WS)), Grp(1, Cat(<<LitI(<<"h","t","t","p">>), Opt(LitI(<<"s">>)), LitI(<<":","/","/">>), Plus(Ch(Alphabet \ (WS)))>>)), Opt(Cat(<<Plus(Ch(WS)), Alt(<<LitI(<<"a","s">>), Cat(<<LitI(<<"n","a","m","e">>), Opt(LitI(<<"d">>))>>)>>), Plus(Ch(WS)), Grp(2, Plus(Ch(WordCh)))>>))>>),
        Cat(<<Alt(<<LitI(<<"c","o","p","y">>), LitI(<<"c","l","o","n","e">>)>>), Plus(Ch(WS)), Opt(Cat(<<LitI(<<"t","h","e">>), Plus(Ch(WS))>>)), LitI(<<"s","i","t","e">>), Plus(Ch(WS)), LitI(<<"f","r","o","m">>), Plus(Ch(WS)), Grp(1, Cat(<<LitI(<<"h","t","t","p">>), Opt(LitI(<<"s">>)), LitI(<<":","/","/">>), Plus(Ch(Alphabet \ (WS)))>>)), Opt(Cat(<<Plus(Ch(WS)), Alt(<<LitI(<<"a","s">>), LitI(<<"i","n","t","o">>), LitI(<<"t","o">>)>>), Plus(Ch(WS)), Grp(2, Plus(Ch(WordCh)))>>))>>),
        Cat(<<Alt(<<LitI(<<"c","o","p","y">>), LitI(<<"c","l","o","n","e">>)>>), Plus(Ch(WS)), Grp(1, Cat(<<LitI(<<"h","t","t","p">>), Opt(LitI(<<"s">>)), LitI(<<":","/","/">>), Plus(Ch(Alphabet \ (WS)))>>)), Opt(Cat(<<Plus(Ch(WS)), Alt(<<LitI(<<"a","s">>), LitI(<<"i","n","t","o">>), LitI(<<"t","o">>)>>), Plus(Ch(WS)), Grp(2, Plus(Ch(WordCh)))>>))>>),
        Cat(<<Alt(<<LitI(<<"i","m","p","o","r","t">>), LitI(<<"d","u","p","l","i","c","a","t","e">>)>>), Plus(Ch(WS)), Opt(Cat(<<LitI(<<"s","i","t","e">>), Plus(Ch(WS)), LitI(<<"f","r","o","m">>), Plus(Ch(WS))>>)), Grp(1, Cat(<<LitI(<<"h","t","t","p">>), Opt(LitI(<<"s">>)), LitI(<<":","/","/">>), Plus(Ch(Alphabet \ (WS)))>>)), Opt(Cat(<<Plus(Ch(WS)), Alt(<<LitI(<<"a","s">>), Cat(<<LitI(<<"n","a","m","e">>), Opt(LitI(<<"d">>))>>)>>), Plus(Ch(WS)), Grp(2, Plus(Ch(WordCh)))>>))>>),
        Cat(<<Alt(<<LitI(<<"c","r","e","a","t","e">>), LitI(<<"m","a","k","e">>)>>), Plus(Ch(WS)), Opt(Cat(<<LitI(<<"a">>), Plus(Ch(WS))>>)), Opt(Cat(<<LitI(<<"l","o","c","a","l">>), Plus(Ch(WS))>>)), LitI(<<"c","o","p","y">>), Plus(Ch(WS)), LitI(<<"o","f">>), Plus(Ch(WS)), Grp(1, Cat(<<LitI(<<"h","t","t","p">>), Opt(LitI(<<"s">>)), LitI(<<":","/","/">>), Plus(Ch(Alphabet \ (WS)))>>)), Opt(Cat(<<Plus(Ch(WS)), Alt(<<LitI(<<"a","s">>), Cat(<<LitI(<<"n","a","m","e">>), Opt(LitI(<<"d">>))>>)>>), Plus(Ch(WS)), Grp(2, Plus(Ch(WordCh)))>>))>>) >>, input)
  IN IF m.ok THEN [sourceUrl |-> Trim(Group(m, input, 1)),
                   newSiteName |-> IF Group(m, input, 2) = <<>> THEN Null ELSE Trim(Group(m, input, 2))]
     ELSE [sourceUrl |-> Null, newSiteName |-> Null]

\* keep the characters of s that are in S
Only(s, S) == SelectSeq(s, LAMBDA c : c \in S)

generateSiteNameFromUrl(url) ==
  LET m == Exec(Cat(<<Lit(<<":","/","/">>), Grp(1, Star(Ch(Alphabet \ {"/", "?", ":"})))>>), url)
      hostname == ToLowerCase(Group(m, url, 1))
      www == IF Len(hostname) >= 4 /\ SubSeq(hostname, 1, 4) = <<"w","w","w",".">>
             THEN SubSeq(hostname, 5, Len(hostname)) ELSE hostname
      surge == IF Len(www) >= 9 /\ SubSeq(www, Len(www) - 8, Len(www)) = <<".","s","u","r","g","e",".","s","h">>
               THEN SubSeq(www, 1, Len(www) - 9) ELSE www
      dashed == [i \in 1..Len(surge) |-> IF surge[i] = "." THEN "-" ELSE surge[i]]
      siteName == Only(dashed, Lower \cup Upper \cup Digit \cup {"-"})
      timestamp == SubSeq(Now, Len(Now) - 3, Len(Now))
  IN IF m.ok THEN siteName \o <<"-","c","l","o","n","e","-">> \o timestamp
     ELSE <<"c","l","o","n","e","d","-","s","i","t","e","-">> \o Now

\* handleSiteCloning, were it not to look for the name among the sites
handleSiteCloning_overwrites(x, context) ==
  LET sitesDir == context.sitesDir
      cloneInfo == x.cloneInfo
      sourceUrl == cloneInfo.sourceUrl
      siteName == Or(cloneInfo.newSiteName, generateSiteNameFromUrl(sourceUrl))
  IN [Plan("I'll create a new site and import all content",
           <<Cmd("cd ${sitesDir}", <<sitesDir>>),
             Cmd("echo Cloning site from ${sourceUrl} using HAX import...", <<sourceUrl>>),
             Cmd("hax site create --name ${siteName} --import-site ${sourceUrl} --import-structure haxcmsToSite --auto",
                 <<siteName, sourceUrl>>)>>, TRUE)
        EXCEPT !.nextSteps = "Your cloned site will contain all pages and content from the source site",
               !.action = "clone_site"]

handleSiteCloning(x, context) ==
  LET availableSites == context.availableSites
      sitesDir == context.sitesDir
      cloneInfo == x.cloneInfo
      sourceUrl == cloneInfo.sourceUrl
      siteName == Or(cloneInfo.newSiteName, generateSiteNameFromUrl(sourceUrl))
  IN IF cloneInfo.sourceUrl = Null
     THEN [Plan("I couldn't understand the clone request.", <<>>, FALSE)
             EXCEPT !.examples = <<"Try these formats:",
                                   "create a new site copying from https://mysite.surge.sh",
                                   "copy the site from https://example.surge.sh as newsite",
                                   "clone https://mysite.surge.sh into mynewsite",
                                   "create a local copy of https://example.surge.sh">>]
     ELSE IF \E k \in 1..Len(availableSites) : availableSites[k] = siteName
     THEN [Plan("A site with that name already exists.", <<>>, FALSE)
             EXCEPT !.examples = <<"Try adding a suffix:", "clone ${sourceUrl} as ${siteName}-copy",
                                   "clone ${sourceUrl} as ${siteName}-v2">>]
     ELSE [Plan("I'll create a new site and import all content",
                <<Cmd("cd ${sitesDir}", <<sitesDir>>),
                  Cmd("echo Cloning site from ${sourceUrl} using HAX import...", <<sourceUrl>>),
                  Cmd("hax site create --name ${siteName} --import-site ${sourceUrl} --import-structure haxcmsToSite --auto",
                      <<siteName, sourceUrl>>)>>, TRUE)
             EXCEPT !.nextSteps = "Your cloned site will contain all pages and content from the source site",
                    !.action = "clone_site"]

\* a sanitizer that leaves runs of whitespace as they are
sanitizeSlideTitle_keepsRuns(title) ==
  Trim(Only(title, Lower \cup Upper \cup Digit \cup WS))

\* title.replace(/[^a-zA-Z0-9\s]/g, '').replace(/\s+/g, ' ').trim()
sanitizeSlideTitle(title) ==
  LET kept == Only(title, Lower \cup Upper \cup Digit \cup WS)
      idx == {i \in 1..Len(kept) : kept[i] \notin WS \/ i = 1 \/ kept[i - 1] \notin WS}
      at(k) == CHOOSE i \in idx : Cardinality({j \in idx : j <= i}) = k
  IN Trim([k \in 1..Cardinality(idx) |-> IF kept[at(k)] \in WS THEN " " ELSE kept[at(k)]])

\* content.replace(/\n\s*/g, ' ').replace(/\s+/g, ' ').trim().replace(/'/g, "'\"'\"'")
RECURSIVE EscapeEach(_, _, _)
EscapeEach(s, quote, escaped) ==
  IF s = <<>> THEN <<>>
  ELSE (IF Head(s) = quote THEN escaped ELSE <<Head(s)>>) \o EscapeEach(Tail(s), quote, escaped)

escapeQuotes(content) ==
  LET idx == {i \in 1..Len(content) : content[i] \notin WS \/ i = 1 \/ content[i - 1] \notin WS}
      at(k) == CHOOSE i \in idx : Cardinality({j \in idx : j <= i}) = k
      singleLine == Trim([k \in 1..Cardinality(idx) |->
                            IF content[at(k)] \in WS THEN " " ELSE content[at(k)]])
  IN EscapeEach(singleLine, "'", <<"'", "\"", "'", "\"", "'">>)

\* the older copy of the engine: content.replace(/"/g, '\\"')
escapeQuotes_first(content) == EscapeEach(content, "\"", <<"\\", "\"">>)

\* str.replace(/\b\w/g, l => l.toUpperCase())
capitalizeWords(str) ==
  [i \in 1..Len(str) |->
     IF str[i] \in Lower /\ (i = 1 \/ str[i - 1] \notin WordCh)
     THEN CHOOSE u \in Upper : LowerOf[u] = str[i] ELSE str[i]]

\* the title when no replacement of the table applies and the original title is not
\* of the form (Traditional|Modern|...) word (House|Building|...): the fallback
generateCustomizedTitle(originalTitle, customization) ==
  originalTitle \o <<" ","-"," ">> \o capitalizeWords(customization)

handleCustomization(x, context, env) ==
  LET availableSites == context.availableSites
      currentSite == context.currentSite
      sitesDir == context.sitesDir
      siteName == Or(x.siteFromInput[availableSites], currentSite)
      pageInfo == x.customization
      pageName == ToLowerCase(pageInfo.pageName)
      customization == pageInfo.customization
      hits == {k \in 1..Len(Items) :
                 \/ Includes(ToLowerCase(Items[k].title), pageName)
                 \/ Includes(ToLowerCase(Items[k].slug), pageName)}
      sourcePage == Items[Least(hits)]
      newTitle == generateCustomizedTitle(sourcePage.title, customization)
  IN IF Falsy(siteName) THEN askForSiteSelection(availableSites, "customize content in")
     ELSE IF pageInfo.pageName = Null
     THEN [Plan("I couldn't understand which page to customize.", <<>>, FALSE)
             EXCEPT !.examples = <<"Try these formats:",
                                   "customize the dogs page and make it about border collies",
                                   "customize aboutus page for small businesses",
                                   "adapt the marketing page for restaurants",
                                   "modify the home page to be about consulting">>]
     ELSE IF siteName \notin SitesOnDisk \/ env.siteJson # "ok"
     THEN Plan("Error accessing page content", <<>>, FALSE)
     ELSE IF hits = {}
     THEN [Plan("I couldn't find a page with that name in the site.", <<>>, FALSE)
             EXCEPT !.examples = <<"Available pages:">> \o [k \in 1..Len(Items) |-> "${item.title}"]]
     ELSE IF env.pageFile # "ok"
     THEN Plan("Error accessing page content", <<>>, FALSE)
     ELSE [Plan("I'll customize the page and create it as a child page",
                <<Cmd("cd ${sitesDir}/${siteName}", <<sitesDir, siteName>>),
                  Cmd("echo Customizing ${sourcePage.title} for ${customization}...",
                      <<sourcePage.title, customization>>),
                  Cmd("hax site node:add --node-op create --title ${newTitle} --content ${customizedContent} --y",
                      <<newTitle, Opaque("customized content")>>)>>, TRUE)
             EXCEPT !.nextSteps = "Your customized page will be created as a child",
                    !.action = "customize_page",
                    !.inlineAI = IF hasAPIKey THEN 1 ELSE 0]

\* generateMultipleAIPages, generateMultiplePagesWithFallbackContent: one command
\* for each title, with content when a prompt was given for the title
generateMultiplePages(pageTitles, pageContents, siteName, sitesDir, byProvider, env) ==
  LET prompted(title) == \E k \in 1..Len(pageContents) :
                           ToLowerCase(pageContents[k].pageTitle) = ToLowerCase(title)
      command(title) ==
        IF ~prompted(title)
        THEN Cmd("hax site node:add --node-op create --title ${pageTitle} --y", <<title>>)
        ELSE IF byProvider /\ hasAPIKey /\ env.ai = "ok"
        THEN Cmd("hax site node:add --node-op create --title ${pageTitle} --content ${escapeQuotes(aiResponse)} --y",
                 <<title, Opaque("content by the provider")>>)
        ELSE Cmd("hax site node:add --node-op create --title ${pageTitle} --content ${content} --y",
                 <<title, Opaque("three paragraphs")>>)
  IN [Plan("I'll add new pages to your site with content",
           [k \in 1..Len(pageTitles) |-> command(pageTitles[k])], TRUE)
        EXCEPT !.nextSteps = "Pages created with content!",
               !.action = "add_multiple_pages_with_content",
               !.inlineAI = IF byProvider /\ hasAPIKey
                            THEN Cardinality({k \in 1..Len(pageTitles) : prompted(pageTitles[k])})
                            ELSE 0]

handleAddMultiplePages(x, context, env) ==
  LET availableSites == context.availableSites
      currentSite == context.currentSite
      sitesDir == context.sitesDir
      pageTitles == x.pageTitles
      pageContents == x.pageContents
      siteName == Or(x.siteFromInput[availableSites], currentSite)
      invalid == {k \in 1..Len(pageTitles) : validateNames(siteName, pageTitles[k]) # "none"}
      hasContentPrompts == Len(pageContents) > 0
      shouldUseAI == hasContentPrompts /\ hasAPIKey /\ Includes(x.input, <<"a","b","o","u","t">>)
  IN IF Falsy(siteName) THEN askForSiteSelection(availableSites, "add pages to")
     ELSE IF Len(pageTitles) = 0
     THEN [Plan("I can see you want to add multiple pages!", <<>>, TRUE)
             EXCEPT !.examples = <<"Add a contact page and about page",
                                   "Create services and portfolio pages",
                                   "Add contact and forsale pages",
                                   "Add a contact page about our company and a services page about web development">>]
     ELSE IF invalid # {} THEN Throw(validateNames(siteName, pageTitles[Least(invalid)]))
     ELSE IF shouldUseAI
     THEN generateMultiplePages(pageTitles, pageContents, siteName, sitesDir, TRUE, env)
     ELSE IF hasContentPrompts
     THEN generateMultiplePages(pageTitles, pageContents, siteName, sitesDir, FALSE, env)
     ELSE [Plan("I'll add new pages to your site",
                [k \in 1..Len(pageTitles) |->
                   Cmd("hax site node:add --node-op create --title ${pageTitle} --y", <<pageTitles[k]>>)],
                TRUE)
             EXCEPT !.nextSteps = "Pages created!",
                    !.action = "add_multiple_pages"]

\* the titles of the outline the provider returned for the deck
Outline == [title |-> <<"A","l","l"," ","A","b","o","u","t",":"," ","E","a","g","l","e","s">>, slides |-> <<<<"W","h","a","t"," ","i","s"," ","a","n"," ","E","a","g","l","e","?">>, <<"H","a","b","i","t","a","t">>>>]

\* a deck in which each slide's relationship command follows its page command
allCommands_interleaved(slideStructure) ==
  LET parentPageTitle == sanitizeSlideTitle(slideStructure.title)
      sanitizedTitle(i) == sanitizeSlideTitle(slideStructure.slides[i])
  IN <<Cmd("hax site node:add --node-op create --title ${parentPageTitle} --content ${index} --y",
           <<parentPageTitle, Opaque("index of the deck")>>)>>
       \o [k \in 1..(2 * Len(slideStructure.slides)) |->
            IF k % 2 = 1
            THEN Cmd("hax site node:add --node-op create --title ${sanitizedTitle} --content ${slideContent} --y",
                     <<sanitizedTitle((k + 1) \div 2), Opaque("content of the slide")>>)
            ELSE Cmd("node -e set the parent of ${sanitizedTitle} to ${parentPageTitle}",
                     <<escapeQuotes(parentPageTitle), escapeQuotes(sanitizedTitle(k \div 2)),
                       escapeQuotes(sanitizedTitle(k \div 2))>>)]

\* the commands of a deck: the parent page, the slides, the relationships
allCommands(slideStructure) ==
  LET parentPageTitle == sanitizeSlideTitle(slideStructure.title)
      parentCommand == Cmd("hax site node:add --node-op create --title ${parentPageTitle} --content ${index} --y",
                           <<parentPageTitle, Opaque("index of the deck")>>)
      slideCommands == [i \in 1..Len(slideStructure.slides) |->
        Cmd("hax site node:add --node-op create --title ${sanitizedTitle} --content ${slideContent} --y",
            <<sanitizeSlideTitle(slideStructure.slides[i]), Opaque("content of the slide")>>)]
      relationshipCommands == [i \in 1..Len(slideStructure.slides) |->
        Cmd("node -e set the parent of ${sanitizedTitle} to ${parentPageTitle}",
            <<escapeQuotes(parentPageTitle), escapeQuotes(sanitizeSlideTitle(slideStructure.slides[i])),
              escapeQuotes(sanitizeSlideTitle(slideStructure.slides[i]))>>)]
  IN <<parentCommand>> \o slideCommands \o relationshipCommands

\* the same in the older copy of the engine, which has no sanitizeSlideTitle
allCommands_first(slideStructure) ==
  LET parentPageTitle == slideStructure.title
      parentCommand == Cmd("hax site node:add --title ${parentPageTitle} --content ${index} --y",
                           <<parentPageTitle, Opaque("index of the deck")>>)
      slideCommands == [i \in 1..Len(slideStructure.slides) |->
        Cmd("hax site node:add --title ${slide.title} --content ${slideContent} --y",
            <<slideStructure.slides[i], Opaque("content of the slide")>>)]
      relationshipCommands == [i \in 1..Len(slideStructure.slides) |->
        Cmd("node -e set the parent of ${slide.title} to ${parentPageTitle}",
            <<escapeQuotes_first(parentPageTitle), escapeQuotes_first(slideStructure.slides[i]),
              escapeQuotes_first(slideStructure.slides[i])>>)]
  IN <<parentCommand>> \o slideCommands \o relationshipCommands

generateAISlidedeck(topic, siteName, sitesDir, env) ==
  LET slideStructure == Outline
  IN IF env.ai # "ok" THEN Throw("provider error")
     ELSE [Plan("I'll create a comprehensive slidedeck", allCommands(slideStructure), TRUE)
             EXCEPT !.nextSteps = "Slidedeck created!",
                    !.action = "create_slidedeck",
                    !.inlineAI = 1 + Len(slideStructure.slides)]

handleCreateSlidedeck(x, context, env) ==
  LET availableSites == context.availableSites
      currentSite == context.currentSite
      sitesDir == context.sitesDir
      topic == x.topic
      siteName == Or(x.siteFromInput[availableSites], currentSite)
      deck == generateAISlidedeck(topic, siteName, sitesDir, env)
  IN IF Falsy(siteName) THEN askForSiteSelection(availableSites, "add a slidedeck to")
     ELSE IF Falsy(topic)
     THEN [Plan("I'd love to create a slidedeck for you! What topic would you like it to cover?", <<>>, TRUE)
             EXCEPT !.examples = <<"Make a slidedeck about eagles",
                                   "Create a presentation about climate change",
                                   "Build slides about artificial intelligence",
                                   "Generate a slidedeck about entrepreneurship">>]
     ELSE IF ~hasAPIKey
     THEN [Plan("I need AI capabilities to generate comprehensive slidedecks.", <<>>, FALSE)
             EXCEPT !.suggestion = "Try adding individual pages manually or set up an Anthropic API key"]
     ELSE IF deck.raised # "none"
     THEN [Plan("Failed to generate slidedeck. You can try creating individual slides manually.", <<>>, FALSE)
             EXCEPT !.error = deck.raised, !.inlineAI = 1]
     ELSE deck

(***************************************************************************)
(* The rule cascade of ai-processorORIG.js.                                *)
(***************************************************************************)
\* the first rule of processWithPatterns that the lowercased, trimmed input matches
Cascade(input) ==
  LET addPage == matchesPattern(input, <<<<"a","d","d">>, <<"c","r","e","a","t","e">>, <<"n","e","w">>>>, <<<<"p","a","g","e">>, <<"p","o","s","t">>, <<"a","r","t","i","c","l","e">>>>)
  IN IF matchesDeployment(input) THEN "handleDeployment"
     ELSE IF matchesSlidedeck(input) THEN "handleCreateSlidedeck"
     ELSE IF matchesCustomization(input) THEN "handleCustomization"
     ELSE IF matchesSiteCloning(input) THEN "handleSiteCloning"
     ELSE IF matchesMultiplePages(input) THEN "handleAddMultiplePages"
     ELSE IF matchesWebComponent(input) THEN "handleAddWebComponent"
     ELSE IF addPage THEN "handleAddPage"
     ELSE IF /\ matchesPattern(input, <<<<"c","r","e","a","t","e">>, <<"m","a","k","e">>, <<"n","e","w">>>>,
                               <<<<"s","i","t","e">>, <<"w","e","b","s","i","t","e">>, <<"b","l","o","g">>, <<"p","o","r","t","f","o","l","i","o">>>>)
             /\ ~addPage
     THEN "handleCreateSite"
     ELSE IF matchesPattern(input, <<<<"s","h","o","w">>, <<"l","i","s","t">>, <<"w","h","a","t">>, <<"d","i","s","p","l","a","y">>>>, <<<<"s","i","t","e">>, <<"p","a","g","e">>>>)
     THEN "handleListContent"
     ELSE IF matchesPattern(input, <<<<"p","r","e","v","i","e","w">>, <<"v","i","e","w">>, <<"s","e","e">>, <<"o","p","e","n">>>>, <<<<"s","i","t","e">>, <<"w","e","b","s","i","t","e">>>>)
     THEN "handlePreview"
     ELSE IF matchesPattern(input, <<<<"p","u","b","l","i","s","h">>, <<"d","e","p","l","o","y">>, <<"o","n","l","i","n","e">>, <<"w","e","b">>, <<"l","i","v","e">>>>, <<>>)
     THEN "handlePublish"
     ELSE IF matchesPattern(input, <<<<"e","d","i","t">>, <<"c","h","a","n","g","e">>, <<"u","p","d","a","t","e">>, <<"m","o","d","i","f","y">>>>, <<<<"p","a","g","e">>, <<"c","o","n","t","e","n","t">>>>)
     THEN "handleEdit"
     ELSE IF matchesPattern(input, <<<<"h","e","l","p">>, <<"w","h","a","t"," ","c","a","n">>, <<"h","o","w"," ","d","o">>, <<"c","o","m","m","a","n","d","s">>>>, <<>>)
     THEN "getHelpResponse"
     ELSE "getDefaultResponse"

(***************************************************************************)
(* The later variant (src/unnamed/part_001): its classifiers, extractors   *)
(* and the two definitions of getDefaultResponse, of which a JavaScript    *)
(* class keeps the second.                                                 *)
(***************************************************************************)
matchesQuizCreation(input) == Test(Alt(<<Cat(<<LitI(<<"a","d","d">>), Star(Ch(Dot)), LitI(<<"q","u","i","z">>)>>), Cat(<<LitI(<<"c","r","e","a","t","e">>), Star(Ch(Dot)), LitI(<<"q","u","i","z">>)>>), Cat(<<LitI(<<"q","u","i","z">>), Star(Ch(Dot)), LitI(<<"a","b","o","u","t">>)>>)>>), input)

matchesPageCreation(input) == Test(Alt(<<Cat(<<LitI(<<"a","d","d">>), Star(Ch(Dot)), LitI(<<"p","a","g","e">>)>>), Cat(<<LitI(<<"c","r","e","a","t","e">>), Star(Ch(Dot)), LitI(<<"p","a","g","e">>)>>), Cat(<<LitI(<<"n","e","w">>), Star(Ch(Dot)), LitI(<<"p","a","g","e">>)>>)>>), input)

sanitizePageTitle(title) ==
  LET spaced == [i \in 1..Len(title) |->
                   IF title[i] \in {":", ";", "|", "\\", "/", "?", "#", "[", "]", "@", "!", "$", "&",
                                    "'", "(", ")", "*", "+", ",", "=", "%"}
                   THEN " " ELSE title[i]]
      idx == {i \in 1..Len(spaced) : spaced[i] \notin WS \/ i = 1 \/ spaced[i - 1] \notin WS}
      at(k) == CHOOSE i \in idx : Cardinality({j \in idx : j <= i}) = k
  IN IF Falsy(title) THEN title
     ELSE Trim([k \in 1..Cardinality(idx) |-> IF spaced[at(k)] \in WS THEN " " ELSE spaced[at(k)]])

extractPageTitle_later(input) ==
  LET m == Exec(Cat(<<Alt(<<LitI(<<"p","a","g","e">>), LitI(<<"c","a","l","l","e","d">>)>>), Plus(Ch(WS)), Grp(1, Plus(Ch(Lower \cup Upper \cup Digit \cup {"_","-"})))>>), input)
  IN IF m.ok THEN sanitizePageTitle(Group(m, input, 1)) ELSE Null

extractPageSource_later(input) ==
  LET m == Exec(Cat(<<LitI(<<"t","o">>), Plus(Ch(WS)), Opt(Cat(<<LitI(<<"t","h","e">>), Plus(Ch(WS))>>)), Grp(1, Plus(Ch(Lower \cup Upper \cup Digit \cup {"_","-"}))), Plus(Ch(WS)), LitI(<<"p","a","g","e">>)>>), input)
  IN IF m.ok THEN Group(m, input, 1) ELSE Null

extractContent_later(input) ==
  LET m == Exec(Cat(<<LitI(<<"a","b","o","u","t">>), Plus(Ch(WS)), Grp(1, LazyPlus(Ch(Dot))), Alt(<<Cat(<<Plus(Ch(WS)), LitI(<<"t","o">>), Plus(Ch(WS))>>), Eos>>)>>), input)
  IN IF m.ok THEN Trim(Group(m, input, 1)) ELSE Null

extractSiteFromInput_later(input, availableSites) ==
  LET hits == {k \in 1..Len(availableSites) : Includes(input, availableSites[k])}
  IN IF hits = {} THEN Null ELSE availableSites[Least(hits)]

askForSiteSelection_later(availableSites, action) ==
  IF Len(availableSites) = 0
  THEN [Plan("You don't have any sites yet.", <<>>, TRUE)
          EXCEPT !.suggestion = "Try: Create a site called my-first-site"]
  ELSE Plan("Which site would you like to ${action}?", <<>>, TRUE)

getDefaultResponse_first(input) ==
  [Plan("I'm not sure how to handle", <<>>, TRUE)
     EXCEPT !.suggestions = <<"Add a quiz about sharks to the intro3 page",
                              "Create a page called About",
                              "Add a page called Contact to mysite">>]

getDefaultResponse_later(input) ==
  [Plan("Sorry, I didn't understand. Try help for available commands.", <<>>, FALSE)
     EXCEPT !.error = "Unknown command"]

(***************************************************************************)
(* What the classifiers and extractors make of a sentence.  They are pure  *)
(* functions of the sentence; Init computes them once for each sentence of *)
(* the model and keeps the result in the variable parsed.                  *)
(***************************************************************************)
Parse(userInput) ==
  LET input == Trim(ToLowerCase(userInput))
  IN [input |-> input,
      rule |-> Cascade(input),
      siteName |-> extractSiteName(input),
      pageTitle |-> extractPageTitle(input),
      parentPage |-> extractParentPage(input),
      content |-> extractContent(input),
      componentType |-> extractComponentType(input),
      pageSource |-> extractPageSource(input),
      domain |-> extractDomain(input),
      pageTitles |-> extractMultiplePageTitles(input),
      pageContents |-> extractMultiplePageContents(input),
      topic |-> extractSlidedeckTopic(input),
      customization |-> extractCustomizationDetails(input),
      cloneInfo |-> extractCloneInfo(input),
      siteFromInput |-> [a \in AvailableSiteLists |-> extractSiteFromInput(input, a)],
      siteFromInput_later |-> [a \in AvailableSiteLists |-> extractSiteFromInput_later(input, a)],
      quizCreation |-> matchesQuizCreation(input),
      pageCreation |-> matchesPageCreation(input),
      pageTitle_later |-> extractPageTitle_later(input),
      pageSource_later |-> extractPageSource_later(input),
      content_later |-> extractContent_later(input)]

(***************************************************************************)
(* processWithPatterns, in both variants.  x is what the classifiers and   *)
(* extractors make of userInput (parsed[userInput]); env names the outcome *)
(* of each call the handlers make to the outside.                          *)
(***************************************************************************)
InvalidInput ==
  [Plan("Please provide a valid command. Try 'help' for available commands.", <<>>, FALSE)
     EXCEPT !.error = "Invalid input"]

\* const { availableSites, currentSite, sitesDir } = context, of an undefined context
DestructureError == Throw("Cannot destructure property 'availableSites' of 'context' as it is undefined.")

processWithPatterns_orig(input, x, ctx, env) ==
  IF Falsy(input) THEN InvalidInput
  ELSE IF ~ctx.valid THEN DestructureError
  ELSE CASE x.rule = "handleDeployment" -> handleDeployment(x, ctx, env)
         [] x.rule = "handleCreateSlidedeck" -> handleCreateSlidedeck(x, ctx, env)
         [] x.rule = "handleCustomization" -> handleCustomization(x, ctx, env)
         [] x.rule = "handleSiteCloning" -> handleSiteCloning(x, ctx)
         [] x.rule = "handleAddMultiplePages" -> handleAddMultiplePages(x, ctx, env)
         [] x.rule = "handleAddWebComponent" -> handleAddWebComponent(x, ctx, env)
         [] x.rule = "handleAddPage" -> handleAddPage(x, ctx, env)
         [] x.rule = "handleCreateSite" -> handleCreateSite(x, ctx.sitesDir)
         [] x.rule = "handleListContent" -> handleListContent(x, ctx)
         [] x.rule = "handlePreview" -> handlePreview(x, ctx)
         [] x.rule = "handlePublish" -> handlePublish(x, ctx)
         [] x.rule = "handleEdit" -> handleEdit(x, ctx)
         [] x.rule = "getHelpResponse" -> getHelpResponse
         [] OTHER -> getDefaultResponse(x.input)

\* part_001: the component is appended to the page file; the plan carries no action
addComponentToExistingPage_later(siteName, pageName, componentContent, componentType, sitesDir, env) ==
  LET r == addComponentToExistingPage(siteName, pageName, componentContent, componentType, sitesDir, env)
  IN IF r.success
     THEN [r EXCEPT !.explanation = "Added ${componentType} to page", !.action = "none",
                    !.nextSteps = "none"]
     ELSE IF r.error = "EACCES: permission denied"
     THEN [r EXCEPT !.explanation = "Error adding ${componentType}"]
     ELSE r

handleCreateQuiz_later(x, ctx, siteName, pageSource, contentPrompt, env) ==
  LET quizContent == "<quiz-component topic=${topic}></quiz-component>"
  IN IF Falsy(pageSource)
     THEN [Plan("To add a quiz, you need to specify which page to add it to.", <<>>, FALSE)
             EXCEPT !.error = "Target page not specified",
                    !.suggestions = <<"Add a multiple choice quiz about sharks to the marine life page",
                                      "Add a quiz about the content on the history page",
                                      "Add a multiple choice quiz about biology to the science page">>]
     ELSE addComponentToExistingPage_later(siteName, pageSource, quizContent, "quiz", ctx.sitesDir, env)

\* '' when the site has no faculty resources, three paragraphs otherwise
generateBasicContentFromResources(env) ==
  IF env.resources = "some" THEN Opaque("<p>${p1}</p>\n<p>${p2}</p>\n<p>${p3}</p>") ELSE <<>>

processWithPatterns_later(input, x, ctx, env) ==
  IF Falsy(input) THEN InvalidInput
  ELSE IF ~ctx.valid THEN DestructureError
  ELSE IF x.quizCreation
  THEN handleCreateQuiz_later(x, ctx, ctx.currentSite, x.pageSource_later, x.content_later, env)
  ELSE IF x.pageCreation
  THEN LET pageTitle == x.pageTitle_later
           siteName == Or(x.siteFromInput_later[ctx.availableSites], ctx.currentSite)
           generated == generateBasicContentFromResources(env)
       IN IF Falsy(siteName) THEN askForSiteSelection_later(ctx.availableSites, "add a page to")
          ELSE IF Falsy(pageTitle)
          THEN [Plan("What would you like to call the new page?", <<>>, TRUE)
                  EXCEPT !.examples = <<"Add a page called About to ${siteName}">>]
          ELSE IF Falsy(generated)
          THEN Plan("I'll add a new page",
                    <<Cmd("hax site node:add --node-op create --title ${pageTitle} --y", <<pageTitle>>)>>, TRUE)
          ELSE Plan("I'll add a new page with content based on your course resources",
                    <<Cmd("hax site node:add --node-op create --title ${pageTitle} --content ${generated} --y",
                          <<pageTitle, generated>>)>>, TRUE)
  ELSE getDefaultResponse_later(x.input)

processWithPatterns(input, x, ctx, env) ==
  IF variant = "orig" THEN processWithPatterns_orig(input, x, ctx, env)
  ELSE processWithPatterns_later(input, x, ctx, env)

(***************************************************************************)
(* The provider's replies.  A reply is text: lines holds its lines; json   *)
(* is the object JSON.parse makes of the outermost braces of the text, if  *)
(* any, and whole says that the text is nothing but that object.           *)
(***************************************************************************)
NoJson == [present |-> FALSE, explanation |-> Null, commands |-> Null, success |-> "absent", error |-> Null]

SurgeLine == <<"h","a","x"," ","s","i","t","e"," ","s","i","t","e",":","s","u","r","g","e"," ","-","-","d","o","m","a","i","n"," ","m","y",".","s","u","r","g","e",".","s","h">>

StartLine == <<"h","a","x"," ","s","i","t","e"," ","s","t","a","r","t"," ","-","-","n","a","m","e"," ","d","e","m","o"," ","-","-","y">>

\* the grave accent, which a TLA+ string cannot hold
Backtick == "\\x60"

Fence == <<Backtick, Backtick, Backtick>>

AIResponses ==
  { [lines |-> <<<<"I"," ","w","i","l","l"," ","d","e","p","l","o","y"," ","i","t",".">>, Fence \o <<"b","a","s","h">>, SurgeLine, Fence>>, whole |-> FALSE, json |-> NoJson],
    [lines |-> <<<<"H","e","r","e"," ","a","r","e"," ","t","w","o"," ","s","t","e","p","s",".">>, Fence \o <<"b","a","s","h">>, <<"c","d"," ","d","e","m","o">>, StartLine, Fence>>, whole |-> FALSE, json |-> NoJson],
    [lines |-> <<<<"C","o","u","l","d"," ","y","o","u"," ","t","e","l","l"," ","m","e"," ","w","h","i","c","h"," ","s","i","t","e"," ","y","o","u"," ","m","e","a","n","?">>>>, whole |-> FALSE, json |-> NoJson],
    [lines |-> <<Opaque("{explanation, commands, success: true}")>>, whole |-> TRUE,
     json |-> [present |-> TRUE, explanation |-> <<"C","r","e","a","t","i","n","g"," ","t","h","e"," ","s","i","t","e">>, commands |-> <<StartLine>>,
               success |-> "true", error |-> Null]],
    [lines |-> <<Opaque("{explanation, commands, success: false, error}")>>, whole |-> TRUE,
     json |-> [present |-> TRUE, explanation |-> <<"I"," ","a","m"," ","n","o","t"," ","s","u","r","e">>, commands |-> <<SurgeLine>>,
               success |-> "false", error |-> <<"a","m","b","i","g","u","o","u","s">>]],
    [lines |-> <<<<"S","u","r","e",":">>, Opaque("{explanation}")>>, whole |-> FALSE,
     json |-> [present |-> TRUE, explanation |-> <<"N","o","t","h","i","n","g"," ","t","o"," ","r","u","n">>, commands |-> Null,
               success |-> "absent", error |-> Null]] }

StartsWith(s, p) == Len(s) >= Len(p) /\ SubSeq(s, 1, Len(p)) = p

EndsWith(s, p) == Len(s) >= Len(p) /\ SubSeq(s, Len(s) - Len(p) + 1, Len(s)) = p

RECURSIVE Join(_, _)
Join(ls, sep) ==
  IF Len(ls) = 0 THEN <<>>
  ELSE IF Len(ls) = 1 THEN ls[1]
  ELSE ls[1] \o sep \o Join(Tail(ls), sep)

\* a command the provider wrote: its text, nothing interpolated
Verbatim(text) == Cmd("${text}", <<text>>)

\* the blocks that response.match finds between a bash fence and the next fence, from line from on
RECURSIVE commandBlocks(_, _)
commandBlocks(lines, from) ==
  LET opens == {i \in from..Len(lines) : EndsWith(lines[i], Fence \o <<"b","a","s","h">>)}
      i == Least(opens)
      closes == {j \in (i + 2)..Len(lines) : StartsWith(lines[j], Fence)}
      j == Least(closes)
  IN IF opens = {} THEN <<>>
     ELSE IF closes = {} THEN commandBlocks(lines, i + 1)
     ELSE <<Verbatim(Trim(Join(SubSeq(lines, i + 1, j - 1), <<"\n">>)))>> \o commandBlocks(lines, j + 1)

parseAIResponse_orig(response, isAIGenerated) ==
  [Plan("the response without its code blocks", commandBlocks(response.lines, 1), TRUE)
     EXCEPT !.aiProcessed = isAIGenerated]

parseAIResponse_later(response) ==
  LET parsed_ == response.json
      commands == SelectSeq(response.lines, LAMBDA line : StartsWith(Trim(line), <<"h","a","x"," ">>))
  IN IF parsed_.present
     THEN [Plan(IF Falsy(parsed_.explanation) THEN "" ELSE "parsed.explanation",
                IF Falsy(parsed_.commands) THEN <<>>
                ELSE [k \in 1..Len(parsed_.commands) |-> Verbatim(parsed_.commands[k])],
                parsed_.success = "true")
             EXCEPT !.error = IF Falsy(parsed_.error) THEN "none" ELSE "parsed.error"]
     ELSE [Plan("lines[0]", [k \in 1..Len(commands) |-> Verbatim(commands[k])], Len(commands) > 0)
             EXCEPT !.error = IF Len(commands) = 0 THEN "No valid commands generated" ELSE "none"]

parseAIResponse(response) ==
  IF variant = "orig" THEN parseAIResponse_orig(response, TRUE) ELSE parseAIResponse_later(response)

HistoryCapOrig == 16

HistoryCapLater == 20

HistoryCap == IF variant = "orig" THEN HistoryCapOrig ELSE HistoryCapLater

\* the two pushes, were the slice to keep the oldest entries
addToHistory_keepsOldest(history, turn) ==
  LET pushed == history \o <<[role |-> "user", content |-> turn], [role |-> "assistant", content |-> turn]>>
  IN IF Len(pushed) > HistoryCap THEN SubSeq(pushed, 1, HistoryCap) ELSE pushed

\* the two pushes, then conversationHistory.slice(-cap)
addToHistory(history, turn) ==
  LET pushed == history \o <<[role |-> "user", content |-> turn], [role |-> "assistant", content |-> turn]>>
  IN IF Len(pushed) > HistoryCap
     THEN SubSeq(pushed, Len(pushed) - HistoryCap + 1, Len(pushed))
     ELSE pushed

(***************************************************************************)
(* The calls.  server.js awaits aiProcessor.process(message, fullContext); *)
(* the steps of one call are the awaits inside process().                  *)
(***************************************************************************)
MaxCalls == 2

\* outcomes of what a handler asks of the outside: surge whoami, the provider,
\* reading site.json, reading and writing the page file, the faculty resources
Envs ==
  [surge : {"ok", "fails"}, ai : {"ok", "throws"}, siteJson : {"ok", "unreadable"},
   pageFile : {"ok", "unreadable"}, write : {"ok", "fails"}, resources : {"none", "some"}]

NoPlan == Plan("none", <<>>, FALSE)

NotSent == [made |-> FALSE, prior |-> <<>>]

NoSummary == [built |-> FALSE]

NoCall == [fn |-> "none", arg |-> <<>>, called |-> FALSE, value |-> <<>>]

\* no serve process has been spawned: runningProcesses = new Map(). An entry
\* of running is the number of a spawned process, 0 when the site has no entry
NoServe == [running |-> [siteName \in SitesOnDisk |-> 0], spawned |-> <<>>, stopping |-> FALSE]

NoAccess == [method |-> "none", status |-> 0, path |-> <<>>]

\* the page files as they are before the first request: one ends in a newline, the
\* other is indented and ends in a newline
PageBody(location) ==
  IF location = "pages/about-us/index.html" THEN <<" ", "<h1>About Us</h1>", "\n">>
  ELSE <<"<p>Welcome</p>", "\n">>

Init ==
  /\ parsed = [s \in Sentences |-> Parse(s)]
  /\ variant \in {"orig", "later"}
  /\ hasAPIKey \in BOOLEAN
  /\ initialized = (variant = "later" /\ hasAPIKey)
  /\ conversationHistory = <<>>
  /\ files = [f \in {<<s, Items[k].location>> : s \in SitesOnDisk, k \in 1..Len(Items)} |-> PageBody(f[2])]
  /\ pc = "idle"
  /\ request = Null
  /\ fullContext = Undefined
  /\ patternResult = NoPlan
  /\ result = NoPlan
  /\ probe = "none"
  /\ steps = <<>>
  /\ calls = 0
  /\ sent = NotSent
  /\ envKeys = hasAPIKey
  /\ access = NoAccess
  /\ helper = NoCall
  /\ serve = NoServe
  /\ resources = NoSummary

\* process(userInput, context), up to its first await
Process(input, ctx) ==
  /\ pc = "idle"
  /\ calls < MaxCalls
  /\ calls' = calls + 1
  /\ request' = input
  /\ fullContext' = ctx
  /\ pc' = IF variant = "later" /\ hasAPIKey /\ initialized THEN "ai" ELSE "patterns"
  /\ UNCHANGED <<variant, hasAPIKey, initialized, conversationHistory, files, parsed,
                 patternResult, result, probe, steps, sent, envKeys, access,
                 resources, helper, serve>>

\* the catch of process(), were it to pass the exception on as a plan that succeeded
ErrorPlan_reportsSuccess(msg) ==
  [Plan("Sorry, I encountered an error: ${error.message}", <<>>, TRUE) EXCEPT !.error = msg]

\* the catch of process()
ErrorPlan(msg) ==
  [Plan("Sorry, I encountered an error: ${error.message}", <<>>, FALSE) EXCEPT !.error = msg]

Returned(r) == [r EXCEPT !.wrote = NoWrite, !.probe = "none"]

\* await this.processWithPatterns(userInput, context): from process(), or from
\* the catch of processWithAI
RunPatterns ==
  /\ pc \in {"patterns", "fallback"}
  /\ \E r \in {processWithPatterns(request, IF request \in Sentences THEN parsed[request] ELSE parsed[<<>>],
                                  fullContext, env) : env \in Envs} :
          /\ files' = IF r.wrote = NoWrite THEN files
                      ELSE [files EXCEPT ![<<r.wrote.site, r.wrote.location>>] = r.wrote.content]
          /\ probe' = IF r.probe = "none" THEN probe ELSE r.probe
          /\ IF r.raised # "none"
             THEN /\ result' = ErrorPlan(r.raised)
                  /\ pc' = "done"
                  /\ steps' = Append(steps, "patterns:threw")
                  /\ UNCHANGED patternResult
             ELSE IF variant = "orig" /\ pc = "patterns" /\ ~r.success /\ hasAPIKey
             THEN /\ patternResult' = Returned(r)
                  /\ pc' = "ai"
                  /\ steps' = Append(steps, "patterns")
                  /\ UNCHANGED result
             ELSE /\ patternResult' = Returned(r)
                  /\ result' = Returned(r)
                  /\ pc' = "done"
                  /\ steps' = Append(steps, "patterns")
  /\ UNCHANGED <<variant, hasAPIKey, initialized, conversationHistory, parsed,
                 request, fullContext, calls, sent, envKeys, access,
                 resources, helper, serve>>

\* processWithAI, were it to return the plan of the patterns it was called to replace
CallAI_returnsPatternPlan ==
  /\ pc = "ai"
  /\ fullContext.valid
  /\ sent' = [made |-> TRUE, prior |-> conversationHistory]
  /\ conversationHistory' = addToHistory(conversationHistory, calls)
  /\ result' = patternResult
  /\ steps' = Append(steps, "ai")
  /\ pc' = "done"
  /\ UNCHANGED <<variant, hasAPIKey, initialized, files, parsed, request, fullContext,
                 patternResult, probe, calls, envKeys, access,
                 resources, helper, serve>>

\* processWithAI: the provider answers; addToHistory, then parseAIResponse
CallAI ==
  /\ pc = "ai"
  /\ fullContext.valid
  /\ \E response \in AIResponses :
       /\ sent' = [made |-> TRUE, prior |-> conversationHistory]
       /\ conversationHistory' = addToHistory(conversationHistory, calls)
       /\ result' = parseAIResponse(response)
  /\ steps' = Append(steps, "ai")
  /\ pc' = "done"
  /\ UNCHANGED <<variant, hasAPIKey, initialized, files, parsed, request, fullContext,
                 patternResult, probe, calls, envKeys, access,
                 resources, helper, serve>>

\* the catch of processWithAI, were it to record the request that failed
AIFails_addsToHistory ==
  /\ pc = "ai"
  /\ steps' = Append(steps, IF fullContext.valid THEN "ai:threw" ELSE "prompt:threw")
  /\ sent' = IF fullContext.valid THEN [made |-> TRUE, prior |-> conversationHistory] ELSE sent
  /\ conversationHistory' = addToHistory(conversationHistory, calls)
  /\ pc' = "fallback"
  /\ UNCHANGED <<variant, hasAPIKey, initialized, files, parsed,
                 request, fullContext, patternResult, result, probe, calls, envKeys, access,
                 resources, helper, serve>>

\* processWithAI: buildSystemPrompt or the provider throws; the catch runs the patterns
AIFails ==
  /\ pc = "ai"
  /\ steps' = Append(steps, IF fullContext.valid THEN "ai:threw" ELSE "prompt:threw")
  /\ sent' = IF fullContext.valid THEN [made |-> TRUE, prior |-> conversationHistory] ELSE sent
  /\ pc' = "fallback"
  /\ UNCHANGED <<variant, hasAPIKey, initialized, conversationHistory, files, parsed,
                 request, fullContext, patternResult, result, probe, calls, envKeys, access,
                 resources, helper, serve>>

\* the return to server.js, were the history to end with the call
Return_forgetsHistory ==
  /\ pc = "done"
  /\ pc' = "idle"
  /\ request' = Null
  /\ fullContext' = Undefined
  /\ patternResult' = NoPlan
  /\ result' = NoPlan
  /\ probe' = "none"
  /\ steps' = <<>>
  /\ sent' = NotSent
  /\ conversationHistory' = <<>>
  /\ UNCHANGED <<variant, hasAPIKey, initialized, files, parsed, calls, envKeys, access,
                 resources, helper, serve>>

\* process() has returned result to server.js
Return ==
  /\ pc = "done"
  /\ pc' = "idle"
  /\ request' = Null
  /\ fullContext' = Undefined
  /\ patternResult' = NoPlan
  /\ result' = NoPlan
  /\ probe' = "none"
  /\ steps' = <<>>
  /\ sent' = NotSent
  /\ UNCHANGED <<variant, hasAPIKey, initialized, conversationHistory, files, parsed, calls,
                 envKeys, access,
                 resources, helper, serve>>

\* POST /api/ai/clear-history; the later variant defines no clearHistory
clearHistory ==
  /\ pc = "idle"
  /\ variant = "orig"
  /\ conversationHistory # <<>>
  /\ conversationHistory' = <<>>
  /\ UNCHANGED <<variant, hasAPIKey, initialized, files, parsed, pc, request, fullContext,
                 patternResult, result, probe, steps, calls, sent, envKeys, access,
                 resources, helper, serve>>

\* POST /api/config/api-keys: the keys of the body are written to .env, dotenv loads
\* them into process.env, and aiProcessor.updateConfig() makes this.anthropicAPI and
\* this.openaiAPI from them; hasAPIKey, initialized and the client are as constructed
updateConfig(keys) ==
  /\ pc = "idle"
  /\ envKeys' = (envKeys \/ keys)
  /\ UNCHANGED <<variant, hasAPIKey, initialized, conversationHistory, files, parsed, pc, request,
                 fullContext, patternResult, result, probe, steps, calls, sent, access, resources, helper, serve>>

Next ==
  \/ \E input \in Inputs, ctx \in Contexts : Process(input, ctx)
  \/ RunPatterns
  \/ CallAI
  \/ AIFails
  \/ Return
  \/ clearHistory
  \/ \E keys \in BOOLEAN : updateConfig(keys)

Spec == Init /\ [][Next]_vars

(***************************************************************************)
(* An engine that holds a key and has already made round trips: the        *)
(* history is what addToHistory built from them, one short of the cap or   *)
(* at the cap.  The earlier turns are numbered up to 0.                    *)
(***************************************************************************)
RECURSIVE Earlier(_, _)
Earlier(j, k) == IF j = 0 THEN <<>> ELSE addToHistory(Earlier(j - 1, k), j - k)

EarlierTurns == {HistoryCap \div 2 - 1, HistoryCap \div 2}

InitHistory ==
  /\ parsed = [s \in Sentences |-> Parse(s)]
  /\ variant \in {"orig", "later"}
  /\ hasAPIKey = TRUE
  /\ initialized = (variant = "later")
  /\ \E k \in EarlierTurns : conversationHistory = Earlier(k, k)
  /\ files = [f \in {<<s, Items[k].location>> : s \in SitesOnDisk, k \in 1..Len(Items)} |-> PageBody(f[2])]
  /\ pc = "idle"
  /\ request = Null
  /\ fullContext = Undefined
  /\ patternResult = NoPlan
  /\ result = NoPlan
  /\ probe = "none"
  /\ steps = <<>>
  /\ calls = 0
  /\ sent = NotSent
  /\ envKeys = TRUE
  /\ access = NoAccess
  /\ helper = NoCall
  /\ serve = NoServe
  /\ resources = NoSummary

SpecHistory == InitHistory /\ [][Next]_vars

(***************************************************************************)
(* The resource summarizer of the later variant.  A site's materials       *)
(* folder, faculty-resources, is a metadata record resources.json and the  *)
(* documents beside it.  A text is modelled by its length, 0 for ''.       *)
(***************************************************************************)
SnippetCap == 1200

FileLimit == 10

Doc(name, isFile, read, length) == [name |-> name, isFile |-> isFile, read |-> read, length |-> length]

\* resources.json: missing, not JSON, the JSON null, or an object; urls may be
\* absent, an array (an item is an object or null) or a number
Metas ==
  { [state |-> st, urls |-> "absent", items |-> <<>>, notes |-> <<>>] : st \in {"missing", "unparsable", "null"} }
  \cup
  { [state |-> "object", urls |-> u, items |-> i, notes |-> n] :
      u \in {"absent", "array", "number"},
      i \in { <<>>,
              <<[kind |-> "object", url |-> <<"h","t","t","p","s",":","/","/","a",".","b">>, description |-> <<"s","l","i","d","e","s">>]>>,
              <<[kind |-> "object", url |-> <<"h","t","t","p","s",":","/","/","a",".","b">>, description |-> <<>>],
                [kind |-> "null", url |-> <<>>, description |-> <<>>]>> },
      n \in {<<>>, <<"u","s","e"," ","c","h","a","p","t","e","r"," ","2">>} }

ElevenDocs == [k \in 1..(FileLimit + 1) |-> Doc(<<"n","o","t","e","s",".","t","x","t">>, TRUE, "ok", k)]

\* the folder is missing, or lists these entries
Listings ==
  { <<>>,
    <<Doc(<<"r","e","s","o","u","r","c","e","s",".","j","s","o","n">>, TRUE, "ok", 40)>>,
    <<Doc(<<"n","o","t","e","s",".","t","x","t">>, TRUE, "ok", 50)>>,
    <<Doc(<<"p","a","p","e","r",".","P","D","F">>, TRUE, "raises", 0), Doc(<<"l","o","n","g",".","m","d">>, TRUE, "ok", SnippetCap + 1)>>,
    <<Doc(<<"d","r","a","f","t","s">>, FALSE, "raises", 0), Doc(<<"l","o","g","o",".","p","n","g">>, TRUE, "ok", 0), Doc(<<"b","l","a","n","k",".","h","t","m","l">>, TRUE, "ok", 0)>>,
    <<Doc(<<"g","o","n","e",".","t","x","t">>, TRUE, "raises", 0)>>,
    ElevenDocs }

Folders ==
  { [exists |-> FALSE, meta |-> m, entries |-> <<>>] : m \in {x \in Metas : x.state = "missing"} }
  \cup { [exists |-> TRUE, meta |-> m, entries |-> e] : m \in Metas, e \in Listings }

Min(a, b) == IF a < b THEN a ELSE b

\* the length of the text extracted from a document; the catch returns ''
extractTextFromResource(doc) ==
  LET lower == ToLowerCase(doc.name)
      textLike == \E ext \in {<<".","t","x","t">>, <<".","m","d">>, <<".","h","t","m">>, <<".","h","t","m","l">>, <<".","c","s","v">>, <<".","j","s","o","n">>} : EndsWith(lower, ext)
  IN IF EndsWith(lower, <<".","p","d","f">>) \/ textLike
     THEN IF doc.read = "raises" THEN 0 ELSE doc.length
     ELSE 0

Threw(what) == [raised |-> TRUE, error |-> what, empty |-> TRUE, urls |-> <<>>, notes |-> <<>>, snippets |-> <<>>]

EmptySummary == [raised |-> FALSE, error |-> "none", empty |-> TRUE, urls |-> <<>>, notes |-> <<>>, snippets |-> <<>>]

\* the try of buildResourcesSummary, before its catch
buildResourcesSummary_rethrows(context, folder) ==
  LET currentSite == context.currentSite
      meta == folder.meta
      readable == folder.exists /\ meta.state = "object"
      urlsKind == IF readable /\ meta.urls # "absent" THEN meta.urls ELSE "array"
      urls == IF readable /\ meta.urls = "array" THEN meta.items ELSE <<>>
      notes == IF readable THEN meta.notes ELSE <<>>
      docs == IF folder.exists
               THEN SelectSeq(folder.entries, LAMBDA e : e.isFile /\ ~EndsWith(e.name, <<".","j","s","o","n">>))
               ELSE <<>>
      first == SubSeq(docs, 1, Min(Len(docs), FileLimit))
      texts == SelectSeq(first, LAMBDA f : extractTextFromResource(f) # 0)
      snippets == [k \in 1..Len(texts) |->
                     [name |-> texts[k].name, length |-> Min(extractTextFromResource(texts[k]), SnippetCap)]]
  IN IF ~context.valid THEN Threw("Cannot destructure property 'currentSite' of 'context'")
     ELSE IF Falsy(currentSite) THEN EmptySummary
     ELSE IF urlsKind = "array" /\ Len(urls) = 0 /\ Len(snippets) = 0 /\ Falsy(notes) THEN EmptySummary
     ELSE IF urlsKind # "array" THEN Threw("urls.map is not a function")
     ELSE IF \E k \in 1..Len(urls) : urls[k].kind = "null" THEN Threw("Cannot read properties of null (reading 'url')")
     ELSE [raised |-> FALSE, error |-> "none", empty |-> FALSE,
           urls |-> [k \in 1..Len(urls) |-> [url |-> urls[k].url, description |-> urls[k].description]],
           notes |-> notes, snippets |-> snippets]

\* buildResourcesSummary: '' from its catch
buildResourcesSummary(context, folder) ==
  LET r == buildResourcesSummary_rethrows(context, folder)
  IN IF r.raised THEN EmptySummary ELSE r

\* buildSystemPrompt: the destructuring of context, then the summary; the prompt
\* has the COURSE RESOURCES section when the summary is not ''
buildSystemPrompt(context, folder) ==
  IF ~context.valid
  THEN [raised |-> TRUE, grounded |-> FALSE]
  ELSE LET resourcesSummary == buildResourcesSummary(context, folder)
       IN [raised |-> resourcesSummary.raised, grounded |-> ~resourcesSummary.empty]

\* a call of buildSystemPrompt, and with it of buildResourcesSummary, on the folder
Summarize ==
  /\ pc = "idle"
  /\ ~resources.built
  /\ resources' = [resources EXCEPT !.built = TRUE,
                                    !.summary = buildResourcesSummary(resources.context, resources.folder),
                                    !.prompt = buildSystemPrompt(resources.context, resources.folder)]
  /\ UNCHANGED <<variant, hasAPIKey, initialized, conversationHistory, files, parsed, pc, request,
                 fullContext, patternResult, result, probe, steps, calls, sent, envKeys, access, helper, serve>>

\* the later variant, about to build the prompt for a context and a materials folder
InitResources ==
  /\ parsed = [s \in Sentences |-> Parse(s)]
  /\ variant = "later"
  /\ hasAPIKey \in BOOLEAN
  /\ initialized = hasAPIKey
  /\ conversationHistory = <<>>
  /\ files = [f \in {<<s, Items[k].location>> : s \in SitesOnDisk, k \in 1..Len(Items)} |-> PageBody(f[2])]
  /\ pc = "idle"
  /\ request = Null
  /\ fullContext = Undefined
  /\ patternResult = NoPlan
  /\ result = NoPlan
  /\ probe = "none"
  /\ steps = <<>>
  /\ calls = 0
  /\ sent = NotSent
  /\ envKeys = hasAPIKey
  /\ access = NoAccess
  /\ helper = NoCall
  /\ serve = NoServe
  /\ \E context \in Contexts, folder \in Folders :
       resources = [built |-> FALSE, context |-> context, folder |-> folder,
                    summary |-> EmptySummary, prompt |-> [raised |-> FALSE, grounded |-> FALSE]]

SpecResources == InitResources /\ [][Summarize]_vars

(***************************************************************************)
(* The file endpoints of server.js, GET and PUT                            *)
(* /api/sites/:siteName/files/*.  A path is the tuple of its characters;   *)
(* the sites directory of the server is SitesDir.                          *)
(***************************************************************************)
\* the parts of a path between its separators
RECURSIVE Segments(_)
Segments(p) ==
  LET seps == {i \in 1..Len(p) : p[i] = "/"}
  IN IF seps = {} THEN <<p>>
     ELSE <<SubSeq(p, 1, Least(seps) - 1)>> \o Segments(SubSeq(p, Least(seps) + 1, Len(p)))

\* path.normalize on the segments of an absolute path: empty segments and '.' go,
\* '..' takes the segment before it with it, and stays at the root
RECURSIVE Resolve(_, _)
Resolve(segments, done) ==
  IF segments = <<>> THEN done
  ELSE LET s == Head(segments)
       IN IF s = <<>> \/ s = <<".">> THEN Resolve(Tail(segments), done)
          ELSE IF s = <<".",".">>
          THEN Resolve(Tail(segments), IF done = <<>> THEN <<>> ELSE SubSeq(done, 1, Len(done) - 1))
          ELSE Resolve(Tail(segments), Append(done, s))

\* path.join(...parts), the first part absolute
pathJoin(parts) ==
  LET joined == Join(SelectSeq(parts, LAMBDA x : x # <<>>), <<"/">>)
      resolved == Resolve(Segments(joined), <<>>)
  IN <<"/">> \o Join(resolved, <<"/">>)
       \o (IF resolved # <<>> /\ EndsWith(joined, <<"/">>) THEN <<"/">> ELSE <<>>)

\* the security check of both endpoints: fullPath.startsWith(sitesDir)
allowed(fullPath) == StartsWith(fullPath, SitesDir)

\* the path of a page file of the model
PagePath(f) ==
  SitesDir \o <<"/">> \o f[1] \o <<"/">>
    \o (IF f[2] = "pages/intro/index.html" THEN <<"p","a","g","e","s","/","i","n","t","r","o","/","i","n","d","e","x",".","h","t","m","l">> ELSE <<"p","a","g","e","s","/","a","b","o","u","t","-","u","s","/","i","n","d","e","x",".","h","t","m","l">>)

\* req.params.siteName and req.params[0], as Express decodes them from the URL
SiteNames == {<<"m","y","s","i","t","e">>, <<".",".">>, <<".",".","/","s","i","t","e","s","-","b","a","c","k","u","p">>, <<".">>}

FilePaths ==
  { <<"p","a","g","e","s","/","i","n","t","r","o","/","i","n","d","e","x",".","h","t","m","l">>, <<"s","i","t","e",".","j","s","o","n">>, <<>>, <<"p","a","g","e","s","/",".",".","/","s","i","t","e",".","j","s","o","n">>, <<".",".","/","p","o","r","t","f","o","l","i","o","/","p","a","g","e","s","/","i","n","t","r","o","/","i","n","d","e","x",".","h","t","m","l">>,
    <<".",".","/",".",".","/","e","t","c","/","p","a","s","s","w","d">>, <<".",".","/",".",".","/","s","i","t","e","s","-","b","a","c","k","u","p","/","n","o","t","e","s",".","t","x","t">>, <<".",".","/",".",".","/","s","i","t","e","s","/","m","y","s","i","t","e","/","s","i","t","e",".","j","s","o","n">>, <<".",".","/",".",".">>, <<"n","o","t","e","s",".","t","x","t">> }

\* GET: fs.readFile(fullPath) unless the check answers 403; 404 when the read fails
GetFile(siteName, filePath) ==
  /\ \E found \in BOOLEAN :
       LET fullPath == pathJoin(<<SitesDir, siteName, filePath>>)
           page == {f \in DOMAIN files : PagePath(f) = fullPath}
       IN access' = [method |-> "GET", path |-> fullPath,
                     status |-> IF ~allowed(fullPath) THEN 403
                                ELSE IF page # {} \/ found THEN 200 ELSE 404]
  /\ UNCHANGED <<variant, hasAPIKey, initialized, conversationHistory, files, parsed, pc, request,
                 fullContext, patternResult, result, probe, steps, calls, sent, envKeys, resources, helper, serve>>

\* PUT: fs.writeFile(fullPath, content) unless the check answers 403; 500 when the write fails
PutFile(siteName, filePath) ==
  /\ \E written \in BOOLEAN :
       LET fullPath == pathJoin(<<SitesDir, siteName, filePath>>)
           page == {f \in DOMAIN files : PagePath(f) = fullPath}
       IN /\ access' = [method |-> "PUT", path |-> fullPath,
                        status |-> IF ~allowed(fullPath) THEN 403
                                   ELSE IF page # {} \/ written THEN 200 ELSE 500]
          /\ files' = IF allowed(fullPath)
                      THEN [f \in DOMAIN files |-> IF f \in page THEN <<"req.body.content">> ELSE files[f]]
                      ELSE files
  /\ UNCHANGED <<variant, hasAPIKey, initialized, conversationHistory, parsed, pc, request,
                 fullContext, patternResult, result, probe, steps, calls, sent, envKeys, resources, helper, serve>>

NextFiles ==
  \/ \E siteName \in SiteNames, filePath \in FilePaths : GetFile(siteName, filePath)
  \/ \E siteName \in SiteNames, filePath \in FilePaths : PutFile(siteName, filePath)

SpecFiles == Init /\ [][NextFiles]_vars

\* ---------------------------------------------------------------------------
\* The engine's pure helpers, called on their own: the title sanitizers, the
\* outline fallback, the three-paragraph fallback and the template quiz.
\* ---------------------------------------------------------------------------

\* the longest title handed to a sanitizer
MaxTitleLen == 4

\* a letter, a digit, two kinds of whitespace, a character both sanitizers
\* replace and one only sanitizeSlideTitle removes
TitleChars == {"a", "1", " ", "\t", ":", "-"}

RECURSIVE Strings(_, _)
Strings(chars, n) ==
  IF n = 0 THEN {<<>>}
  ELSE LET shorter == Strings(chars, n - 1)
       IN shorter \cup {Append(s, c) : s \in {t \in shorter : Len(t) = n - 1}, c \in chars}

Titles == Strings(TitleChars, MaxTitleLen)

Call(fn, arg) == [fn |-> fn, arg |-> arg, called |-> FALSE, value |-> <<>>]

\* the most slides an outline has
MaxSlides == 3

\* titles a provider may give a deck or a slide: plain, with punctuation, with
\* double quotes, with an apostrophe and whitespace to collapse and to trim
DeckTitles == {<<"H","a","b","i","t","a","t">>, <<"W","h","a","t"," ","i","s"," ","a","n"," ","E","a","g","l","e","?">>, <<"T","h","e"," ","\"","B","a","l","d","\""," ","E","a","g","l","e">>, <<"I","t","'","s"," "," ","b","i","g"," ">>}

RECURSIVE Lists(_, _)
Lists(S, n) ==
  IF n = 0 THEN {<<>>}
  ELSE LET shorter == Lists(S, n - 1)
       IN shorter \cup {Append(s, e) : s \in {t \in shorter : Len(t) = n - 1}, e \in S}

\* what JSON.parse of the provider's reply gives generateSlideStructure
Outlines == {[title |-> title, slides |-> slides] : title \in DeckTitles, slides \in Lists(DeckTitles, MaxSlides)}

\* topic of a deck or of a quiz: match[1].trim() of a request, never empty
Topics == {Trim(t) : t \in Titles} \ {<<>>}

getFallbackSlideStructure(topic) ==
  [title |-> Capitalize(topic) \o <<" ","P","r","e","s","e","n","t","a","t","i","o","n">>,
   slides |-> <<<<"I","n","t","r","o","d","u","c","t","i","o","n"," ","t","o"," ">> \o topic,
                <<"U","n","d","e","r","s","t","a","n","d","i","n","g"," ">> \o topic,
                topic \o <<" ","i","n"," ","P","r","a","c","t","i","c","e">>,
                <<"B","e","n","e","f","i","t","s"," ","a","n","d"," ","C","h","a","l","l","e","n","g","e","s">>,
                <<"F","u","t","u","r","e"," ","o","f"," ">> \o topic,
                topic \o <<" ","C","o","n","c","l","u","s","i","o","n">>>>]

\* the most pieces a text handed to generateThreeParagraphsContent is made of
MaxPieces == 4

\* a sentence and the whitespace after it, a word that ends no sentence,
\* whitespace, a paragraph tag
Pieces == {<<"a","."," ">>, <<"b">>, <<" ">>, <<"<","p",">">>}

Texts == {Join(l, <<>>) : l \in Lists(Pieces, MaxPieces)}

\* baseContent.split(/(?<=[.!?])\s+/): the pieces of s from start on, i being the
\* next character to look at
RECURSIVE SplitSentences(_, _, _)
SplitSentences(s, i, start) ==
  IF i > Len(s) THEN <<SubSeq(s, start, Len(s))>>
  ELSE IF s[i] \in WS /\ i > 1 /\ s[i - 1] \in {".", "!", "?"}
  THEN LET after == {j \in (i + 1)..(Len(s) + 1) : j = Len(s) + 1 \/ s[j] \notin WS}
           next == CHOOSE j \in after : \A k \in after : j <= k
       IN <<SubSeq(s, start, i - 1)>> \o SplitSentences(s, next, next)
  ELSE SplitSentences(s, i + 1, start)

\* a paragraph for every sentence of the text, however many there are
generateThreeParagraphsContent_allSentences(pageTitle, baseContent) ==
  LET sentences == SelectSeq(SplitSentences(baseContent, 1, 1), LAMBDA p : p # <<>>)
  IN IF Includes(baseContent, <<"<","p",">">>) THEN baseContent
     ELSE Join([i \in 1..Len(sentences) |-> <<"<","p",">">> \o sentences[i] \o <<"<","/","p",">">>], <<>>)

generateThreeParagraphsContent(pageTitle, baseContent) ==
  LET sentences == SelectSeq(SplitSentences(baseContent, 1, 1), LAMBDA p : p # <<>>)
      paragraphs == [i \in 1..3 |->
                       <<"<","p",">">> \o (IF i <= Len(sentences) THEN sentences[i] ELSE baseContent) \o <<"<","/","p",">">>]
  IN IF Includes(baseContent, <<"<","p",">">>) THEN baseContent
     ELSE Join(paragraphs, <<>>)

Choice(value, correct) == [value |-> value, correct |-> correct]

Question(question, choices) == [question |-> question, choices |-> choices]

\* the markup generateTemplateQuiz returns: its heading and its multiple-choice
\* elements, each with its input elements
generateTemplateQuiz(topic) ==
  IF Includes(ToLowerCase(topic), <<"p","e","n","n"," ","s","t","a","t","e">>)
  THEN [heading |-> <<"Q","u","i","z",":"," ","P","e","n","n"," ","S","t","a","t","e"," ","U","n","i","v","e","r","s","i","t","y">>,
        questions |-> <<
          Question(<<"W","h","e","r","e"," ","i","s"," ","t","h","e"," ","m","a","i","n"," ","c","a","m","p","u","s"," ","o","f"," ","P","e","n","n"," ","S","t","a","t","e"," ","U","n","i","v","e","r","s","i","t","y"," ","l","o","c","a","t","e","d","?">>,
                   <<Choice(<<"P","i","t","t","s","b","u","r","g","h",","," ","P","e","n","n","s","y","l","v","a","n","i","a">>, FALSE), Choice(<<"H","a","r","r","i","s","b","u","r","g",","," ","P","e","n","n","s","y","l","v","a","n","i","a">>, FALSE),
                     Choice(<<"U","n","i","v","e","r","s","i","t","y"," ","P","a","r","k",","," ","P","e","n","n","s","y","l","v","a","n","i","a">>, TRUE), Choice(<<"P","h","i","l","a","d","e","l","p","h","i","a",","," ","P","e","n","n","s","y","l","v","a","n","i","a">>, FALSE)>>),
          Question(<<"W","h","a","t"," ","y","e","a","r"," ","w","a","s"," ","P","e","n","n"," ","S","t","a","t","e"," ","U","n","i","v","e","r","s","i","t","y"," ","f","o","u","n","d","e","d","?">>,
                   <<Choice(<<"1","8","5","5">>, TRUE), Choice(<<"1","8","6","5">>, FALSE), Choice(<<"1","8","7","5">>, FALSE),
                     Choice(<<"1","8","8","5">>, FALSE)>>),
          Question(<<"W","h","a","t"," ","i","s"," ","P","e","n","n"," ","S","t","a","t","e","'","s"," ","m","a","s","c","o","t","?">>,
                   <<Choice(<<"E","a","g","l","e","s">>, FALSE), Choice(<<"N","i","t","t","a","n","y"," ","L","i","o","n">>, TRUE), Choice(<<"P","a","n","t","h","e","r","s">>, FALSE),
                     Choice(<<"T","i","g","e","r","s">>, FALSE)>>),
          Question(<<"P","e","n","n"," ","S","t","a","t","e"," ","i","s"," ","k","n","o","w","n"," ","f","o","r"," ","e","x","c","e","l","l","e","n","c","e"," ","i","n"," ","w","h","i","c","h"," ","f","i","e","l","d","?">>,
                   <<Choice(<<"O","n","l","y"," ","L","i","b","e","r","a","l"," ","A","r","t","s">>, FALSE), Choice(<<"O","n","l","y"," ","E","n","g","i","n","e","e","r","i","n","g">>, FALSE),
                     Choice(<<"O","n","l","y"," ","B","u","s","i","n","e","s","s">>, FALSE),
                     Choice(<<"M","u","l","t","i","p","l","e"," ","f","i","e","l","d","s"," ","i","n","c","l","u","d","i","n","g"," ","E","n","g","i","n","e","e","r","i","n","g",","," ","B","u","s","i","n","e","s","s",","," ","a","n","d"," ","L","i","b","e","r","a","l"," ","A","r","t","s">>, TRUE)>>)>>]
  ELSE [heading |-> <<"Q","u","i","z",":"," ">> \o topic,
        questions |-> <<
          Question(<<"W","h","a","t"," ","i","s"," ","t","h","e"," ","m","a","i","n"," ","t","o","p","i","c"," ","o","f"," ","t","h","i","s"," ","q","u","i","z","?">>,
                   <<Choice(<<"R","a","n","d","o","m"," ","i","n","f","o","r","m","a","t","i","o","n">>, FALSE), Choice(topic, TRUE),
                     Choice(<<"G","e","n","e","r","a","l"," ","k","n","o","w","l","e","d","g","e">>, FALSE), Choice(<<"N","o","n","e"," ","o","f"," ","t","h","e"," ","a","b","o","v","e">>, FALSE)>>),
          Question(<<"W","h","i","c","h"," ","s","t","a","t","e","m","e","n","t"," ","b","e","s","t"," ","d","e","s","c","r","i","b","e","s"," ">> \o topic \o <<"?">>,
                   <<Choice(<<"I","t","'","s"," ","n","o","t"," ","r","e","l","e","v","a","n","t">>, FALSE),
                     Choice(<<"I","t","'","s"," ","a","n"," ","i","m","p","o","r","t","a","n","t"," ","s","u","b","j","e","c","t"," ","t","o"," ","l","e","a","r","n"," ","a","b","o","u","t">>, TRUE),
                     Choice(<<"I","t","'","s"," ","t","o","o"," ","c","o","m","p","l","e","x"," ","t","o"," ","u","n","d","e","r","s","t","a","n","d">>, FALSE),
                     Choice(<<"I","t","'","s"," ","o","u","t","d","a","t","e","d"," ","i","n","f","o","r","m","a","t","i","o","n">>, FALSE)>>),
          Question(<<"H","o","w"," ","c","a","n"," ","y","o","u"," ","l","e","a","r","n"," ","m","o","r","e"," ","a","b","o","u","t"," ">> \o topic \o <<"?">>,
                   <<Choice(<<"I","g","n","o","r","e"," ","i","t"," ","c","o","m","p","l","e","t","e","l","y">>, FALSE), Choice(<<"O","n","l","y"," ","r","e","a","d"," ","o","n","e"," ","s","o","u","r","c","e">>, FALSE),
                     Choice(<<"S","t","u","d","y"," ","m","u","l","t","i","p","l","e"," ","s","o","u","r","c","e","s"," ","a","n","d"," ","p","r","a","c","t","i","c","e">>, TRUE),
                     Choice(<<"M","e","m","o","r","i","z","e"," ","r","a","n","d","o","m"," ","f","a","c","t","s">>, FALSE)>>)>>]

\* what a request for a quiz is about
QuizTopics == Topics \cup {<<"s","h","a","r","k","s">>, <<"P","e","n","n"," ","S","t","a","t","e">>, <<"t","h","e"," ","p","e","n","n"," ","s","t","a","t","e"," ","c","a","m","p","u","s">>}

HelperCalls ==
  {Call(fn, title) : fn \in {"sanitizeSlideTitle", "sanitizePageTitle"}, title \in Titles}
    \cup {Call("generateAISlidedeck", outline) : outline \in Outlines}
    \cup {Call("getFallbackSlideStructure", topic) : topic \in Topics}
    \cup {Call("generateThreeParagraphsContent", baseContent) : baseContent \in Texts}
    \cup {Call("generateTemplateQuiz", topic) : topic \in QuizTopics}

Returns(fn, value) ==
  /\ pc = "idle"
  /\ helper.fn = fn
  /\ ~helper.called
  /\ helper' = [helper EXCEPT !.called = TRUE, !.value = value]
  /\ UNCHANGED <<variant, hasAPIKey, initialized, conversationHistory, files, parsed, pc, request,
                 fullContext, patternResult, result, probe, steps, calls, sent, envKeys, access,
                 resources, serve>>

CallSanitizeSlideTitle == Returns("sanitizeSlideTitle", sanitizeSlideTitle(helper.arg))

CallSanitizePageTitle == Returns("sanitizePageTitle", sanitizePageTitle(helper.arg))

\* steps 2 to 4 of generateAISlidedeck on an outline, in either copy of the engine
CallGenerateAISlidedeck ==
  Returns("generateAISlidedeck",
          IF variant = "first" THEN allCommands_first(helper.arg) ELSE allCommands(helper.arg))

\* the catch of generateSlideStructure: the provider's reply is no JSON
CallGetFallbackSlideStructure == Returns("getFallbackSlideStructure", getFallbackSlideStructure(helper.arg))

CallGenerateThreeParagraphsContent ==
  Returns("generateThreeParagraphsContent", generateThreeParagraphsContent(<<"A","b","o","u","t">>, helper.arg))

\* generateQuizFromPrompt without a key
CallGenerateTemplateQuiz == Returns("generateTemplateQuiz", generateTemplateQuiz(helper.arg))

NextHelpers ==
  \/ CallSanitizeSlideTitle
  \/ CallSanitizePageTitle
  \/ CallGenerateAISlidedeck
  \/ CallGetFallbackSlideStructure
  \/ CallGenerateThreeParagraphsContent
  \/ CallGenerateTemplateQuiz

\* the engine, about to be asked for one helper's value on one argument
InitHelpers ==
  /\ parsed = [s \in Sentences |-> Parse(s)]
  /\ hasAPIKey = FALSE
  /\ initialized = FALSE
  /\ conversationHistory = <<>>
  /\ files = [f \in {<<s, Items[k].location>> : s \in SitesOnDisk, k \in 1..Len(Items)} |-> PageBody(f[2])]
  /\ pc = "idle"
  /\ request = Null
  /\ fullContext = Undefined
  /\ patternResult = NoPlan
  /\ result = NoPlan
  /\ probe = "none"
  /\ steps = <<>>
  /\ calls = 0
  /\ sent = NotSent
  /\ envKeys = FALSE
  /\ access = NoAccess
  /\ resources = NoSummary
  /\ serve = NoServe
  /\ helper \in HelperCalls
  /\ variant \in CASE helper.fn = "sanitizePageTitle" -> {"later"}
                    [] helper.fn = "generateAISlidedeck" -> {"orig", "first"}
                    [] OTHER -> {"orig"}

SpecHelpers == InitHelpers /\ [][NextHelpers]_vars

\* ---------------------------------------------------------------------------
\* server.js: the serve processes of the sites. A spawned process is alive,
\* killed (sent SIGTERM, its exit event still to come) or exited.
\* ---------------------------------------------------------------------------

\* the most serve processes spawned in a run
MaxSpawns == 3

ServeUnchanged ==
  UNCHANGED <<variant, hasAPIKey, initialized, conversationHistory, files, parsed, pc, request,
              fullContext, patternResult, result, probe, steps, calls, sent, envKeys, access,
              resources, helper>>

\* process.kill('SIGTERM') on the processes of the set pids
Kill(spawned, pids) ==
  [p \in 1..Len(spawned) |->
     IF p \in pids /\ spawned[p].state = "alive" THEN [spawned[p] EXCEPT !.state = "killed"]
     ELSE spawned[p]]

\* startServeProcess(siteName), up to its await
startServeProcess(siteName) ==
  /\ ~serve.stopping
  /\ Len(serve.spawned) < MaxSpawns
  /\ LET existing == serve.running[siteName]
         spawned == IF existing # 0 THEN Kill(serve.spawned, {existing}) ELSE serve.spawned
     IN serve' = [serve EXCEPT
                    !.spawned = Append(spawned, [siteName |-> siteName, state |-> "alive"]),
                    !.running = [serve.running EXCEPT ![siteName] = Len(spawned) + 1]]
  /\ ServeUnchanged

\* serveProcess.on('exit'): the process p ends, killed or of itself, and the
\* handler registered for it runs
Exit(p) ==
  /\ ~serve.stopping
  /\ serve.spawned[p].state \in {"alive", "killed"}
  /\ serve' = [serve EXCEPT
                 !.spawned[p].state = "exited",
                 !.running = [serve.running EXCEPT ![serve.spawned[p].siteName] = 0]]
  /\ ServeUnchanged

\* shutdown(signal): every process of runningProcesses is sent SIGTERM
shutdown ==
  /\ ~serve.stopping
  /\ serve' = [serve EXCEPT
                 !.spawned = Kill(serve.spawned, {serve.running[s] : s \in SitesOnDisk}),
                 !.stopping = TRUE]
  /\ ServeUnchanged

NextServe ==
  \/ \E siteName \in SitesOnDisk : startServeProcess(siteName)
  \/ \E p \in 1..Len(serve.spawned) : Exit(p)
  \/ shutdown

SpecServe == Init /\ [][NextServe]_vars

(***************************************************************************)
(* What the claims speak of.                                               *)
(***************************************************************************)
Done == pc = "done"

\* the provider was sent the input during this call
Consulted == \E i \in 1..Len(steps) : steps[i] \in {"ai", "ai:threw"}

\* processWithAI caught an exception during this call
AIThrew == \E i \in 1..Len(steps) : steps[i] \in {"ai:threw", "prompt:threw"}

\* an exception was raised somewhere during this call
SomethingThrew == \E i \in 1..Len(steps) : steps[i] \in {"patterns:threw", "ai:threw", "prompt:threw"}

LastStep == IF steps = <<>> THEN "none" ELSE steps[Len(steps)]

\* what the classifiers and extractors make of the request of this call
X == IF request \in Sentences THEN parsed[request] ELSE parsed[<<>>]

ValidRequest == request \in Sentences /\ request # <<>> /\ fullContext.valid

\* no rule group of the variant's classifier matches the request
Unknown ==
  /\ ValidRequest
  /\ IF variant = "orig" THEN X.rule = "getDefaultResponse" ELSE ~X.quizCreation /\ ~X.pageCreation

IsDeploy(c) ==
  \/ c.template \in {"hax site site:surge --domain ${domain} --no-i",
                     "cd ${sitesDir}/${siteName}/dist && surge . ${domain}"}
  \/ c.template = "${text}" /\ Includes(c.args[1], <<"s","u","r","g","e">>)

IsBuild(c) ==
  \/ c.template \in {"hax site build", "cd ${sitesDir}/${siteName} && npm run build"}
  \/ c.template = "${text}" /\ Includes(c.args[1], <<"b","u","i","l","d">>)

HasDeploy(plan) == \E i \in 1..Len(plan.commands) : IsDeploy(plan.commands[i])

\* C1: every plan process() returns with success = false has an empty command list.
C1_FailedPlanCarriesNoCommands ==
  Done => (~result.success => result.commands = <<>>)

Thrown ==
  {"Invalid site name. Use only letters, numbers, and underscores.",
   "Invalid page title '${pageTitle}'. Use only letters, numbers, spaces, underscores, hyphens, commas, and question marks.",
   "Cannot destructure property 'availableSites' of 'context' as it is undefined."}

FileErrors == {"Site data not found", "File read error", "EACCES: permission denied"}

C3_UnknownWithoutProviderSuggests ==
  Done /\ Unknown /\ ~hasAPIKey =>
    result.success /\ result.commands = <<>> /\ result.suggestions # <<>>

\* the Default response of either variant
IsDefault(plan) ==
  plan.explanation \in {"I'm not sure exactly what you want to do",
                        "Sorry, I didn't understand. Try help for available commands."}

\* C4: an Unknown input, with a generative capability configured (and answering), is
\* passed to processWithAI and the plan returned is the parsed reply; the Default
\* response is not returned.
C4_UnknownGoesToProvider ==
  Done /\ Unknown /\ hasAPIKey /\ ~AIThrew =>
    Consulted /\ LastStep = "ai" /\ ~IsDefault(result)

NameChars == Lower \cup Upper \cup Digit \cup {"-", "_"}

CreateASiteCalled == <<"c","r","e","a","t","e"," ","a"," ","s","i","t","e"," ","c","a","l","l","e","d"," ">>

\* the <name> of 'create a site called <name>'
NameOf(s) == SubSeq(s, Len(CreateASiteCalled) + 1, Len(s))

\* the request is 'create a site called <name>', <name> of letters, digits, hyphens and
\* underscores, and no site exists
CreateSiteRequest ==
  /\ ValidRequest
  /\ fullContext.availableSites = <<>>
  /\ StartsWith(ToLowerCase(request), CreateASiteCalled)
  /\ NameOf(request) # <<>>
  /\ \A i \in 1..Len(NameOf(request)) : NameOf(request)[i] \in NameChars

\* C5: 'create a site called <name>', <name> of letters, digits, hyphens and underscores,
\* with no sites: success = true, exactly one command, the site creation with <name>,
\* and the site-creation action; no validation error.
C5_CreateSiteAcceptsHyphens ==
  Done /\ CreateSiteRequest =>
    /\ result.success
    /\ Len(result.commands) = 1
    /\ result.commands[1].template = "hax site start --name ${siteName} --y"
    /\ result.commands[1].args = <<ToLowerCase(NameOf(request))>>
    /\ result.action = "create-site"
    /\ result.error = "none"

\* an AddPage request that handleAddPage answered with a plan of commands, for a parent
\* that names a page of the manifest
AddPageUnderParent ==
  /\ Done /\ ValidRequest /\ variant = "orig" /\ LastStep = "patterns"
  /\ X.rule = "handleAddPage"
  /\ ~Falsy(X.parentPage)
  /\ \E k \in 1..Len(Items) : ToLowerCase(Items[k].title) = ToLowerCase(X.parentPage)
  /\ result.commands # <<>>

\* C6: AddPage with a resolvable parent: exactly two commands, the page creation and then
\* the manifest patch, on every content path; the patch names the sanitized parent title
\* and the sanitized child title.
C6_ChildPagePlan ==
  AddPageUnderParent =>
    /\ Len(result.commands) = 2
    /\ result.commands[1].template \in
         {"hax site node:add --node-op create --title ${pageTitle} --y",
          "hax site node:add --node-op create --title ${pageTitle} --content ${content} --y",
          "hax site node:add --node-op create --title ${pageTitle} --content ${escapeQuotes(aiResponse)} --y"}
    /\ result.commands[2].template = "node -e set the parent of ${pageTitle} to ${parentPage.toLowerCase()}"
    /\ result.commands[2].args[1] = sanitizeSlideTitle(X.parentPage)
    /\ result.commands[2].args[3] = sanitizeSlideTitle(X.pageTitle)

\* C7: a deployment request whose surge whoami reports not-authenticated: success = false,
\* no commands, the setup instructions, with or without a generative capability.
C7_UnauthenticatedDeployFails ==
  Done /\ ValidRequest /\ probe = "failed" =>
    /\ ~result.success
    /\ result.commands = <<>>
    /\ result.nextSteps = "To deploy sites to the web, you need to setup Surge.sh"

\* C8: a plan with a deploy command is returned only after surge whoami has succeeded in
\* the same call.
C8_DeployOnlyAfterProbe ==
  Done /\ HasDeploy(result) => probe = "ok"

\* C9: in a returned plan, every deploy command has a build command before it.
C9_BuildBeforeDeploy ==
  Done =>
    \A i \in 1..Len(result.commands) :
      IsDeploy(result.commands[i]) => \E j \in 1..(i - 1) : IsBuild(result.commands[j])

\* an AddComponent request, of a quiz or another component, that names no target page
AddComponentWithoutPage ==
  /\ ValidRequest
  /\ IF variant = "orig"
     THEN /\ X.rule = "handleAddWebComponent"
          /\ X.componentType # "null"
          /\ Falsy(X.pageSource)
          /\ ~Falsy(Or(X.siteFromInput[fullContext.availableSites], fullContext.currentSite))
     ELSE X.quizCreation /\ Falsy(X.pageSource_later)

\* C10: AddComponent without a target page: success = false, no commands, the
\* target-page-missing error and at least one suggestion; no page is created.
C10_ComponentNeedsPage ==
  Done /\ AddComponentWithoutPage =>
    /\ ~result.success
    /\ result.commands = <<>>
    /\ result.error = "Target page not specified"
    /\ result.suggestions # <<>>

\* p is a prefix of s
IsPrefix(p, s) == Len(p) <= Len(s) /\ SubSeq(s, 1, Len(p)) = p

\* the page files that a step changes
Changed == {f \in DOMAIN files : files'[f] # files[f]}

\* the pages of the manifest that pageSource names: by title or slug, whatever the case,
\* or else by a part of the title
Named(pageSource) ==
  LET name == ToLowerCase(pageSource)
  IN {k \in 1..Len(Items) :
        \/ ToLowerCase(Items[k].title) = name
        \/ ToLowerCase(Items[k].slug) = ReplaceSpaces(name)
        \/ Includes(ToLowerCase(Items[k].title), name)}

IsCreatePage(c) ==
  c.template \in {"hax site node:add --node-op create --title ${pageTitle} --y",
                  "hax site node:add --node-op create --title ${pageTitle} --content ${content} --y",
                  "hax site node:add --node-op create --title ${pageTitle} --content ${componentContent} --y",
                  "hax site node:add --node-op create --title ${pageTitle} --content ${generated} --y",
                  "hax site node:add --node-op create --title ${pageTitle} --content ${escapeQuotes(aiResponse)} --y",
                  "hax site node:add --node-op create --title ${newTitle} --content ${customizedContent} --y",
                  "hax site node:add --node-op create --title ${parentPageTitle} --content ${index} --y",
                  "hax site node:add --node-op create --title ${sanitizedTitle} --content ${slideContent} --y"}

\* the plan says that the component was added to a page
IsAdded(plan) ==
  plan.explanation \in {"Successfully added the component to your existing page",
                        "Added ${componentType} to page"}

\* C11, as claimed: whenever AddComponent writes a page file, the body it had before is
\* a prefix of the body it has after.
C11_PreviousBodyIsPrefix ==
  [][\A f \in Changed : IsPrefix(files[f], files'[f])]_vars

\* C11, amended: a step changes at most one page file, that of a page the request names
\* (title or slug, whatever the case), in the site the request is about; the body after
\* is the body before, trimmed of the whitespace around it, then a blank line, then the
\* component; the plan returned succeeds and holds no page-creation command.
C11_AppendsToTrimmedBody ==
  [][/\ (pc # "done" /\ pc' = "done" /\ result'.success /\ IsAdded(result'))
          => (Changed # {})
     /\ \A f \in Changed :
          /\ Changed = {f}
          /\ \E c \in {"quiz by the provider", "template quiz", "content of the component",
                       "<quiz-component topic=${topic}></quiz-component>"} :
               files'[f] = TrimBody(files[f]) \o <<"\n", "\n", c>>
          /\ \E k \in Named(IF variant = "orig" THEN X.pageSource ELSE X.pageSource_later) :
               f[2] = Items[k].location
          /\ f[1] = (IF variant = "orig"
                     THEN Or(X.siteFromInput[fullContext.availableSites], fullContext.currentSite)
                     ELSE fullContext.currentSite)
          /\ pc' = "done"
          /\ result'.success
          /\ \A i \in 1..Len(result'.commands) : ~IsCreatePage(result'.commands[i])]_vars

\* C11, witness: 'add a quiz to the about us page' was answered and the page file of
\* About Us, which began with a blank, now begins with its heading and ends with the quiz.
C11_Witness ==
  /\ Done
  /\ request = <<"a","d","d"," ","a"," ","q","u","i","z"," ","t","o"," ","t","h","e"," ","a","b","o","u","t"," ","u","s"," ","p","a","g","e">>
  /\ Len(files[<<<<"m","y","s","i","t","e">>, "pages/about-us/index.html">>]) = 4
  /\ files[<<<<"m","y","s","i","t","e">>, "pages/about-us/index.html">>][1] = "<h1>About Us</h1>"

\* the handlers that ask the provider for content
WorkflowRules ==
  {"handleAddPage", "handleAddMultiplePages", "handleAddWebComponent", "handleCreateSlidedeck",
   "handleCustomization"}

\* the failures of those handlers that are not the provider's: no target page, no such
\* page, no such component, a manifest or a page file that cannot be read or written
OwnFailure(plan) ==
  \/ plan.error \in {"Target page not specified", "Page not found", "Unknown component type",
                     "Site data not found", "File read error", "EACCES: permission denied"}
  \/ plan.explanation = "Error accessing page content"

\* C12: a workflow handler (AddPage, AddMultiplePages, AddComponent, CreateSlidedeck,
\* Customize) returns success = false only for a reason of its own, never because the
\* provider threw or no provider is configured.
C12_ProviderErrorNeverFailsHandler ==
  Done /\ ValidRequest /\ variant = "orig" /\ X.rule \in WorkflowRules
       /\ LastStep # "patterns:threw" /\ ~patternResult.success
    => OwnFailure(patternResult)

(***************************************************************************)
(* C13: the conversation history never holds more than the fixed maximum   *)
(* of entries (16 in ai-processorORIG.js, 20 in the later variant), and a  *)
(* step that changes it either empties it or leaves exactly the most       *)
(* recent entries of the history with the two new turns appended, in       *)
(* their order.                                                            *)
(***************************************************************************)
Pushed == conversationHistory \o <<[role |-> "user", content |-> calls],
                                   [role |-> "assistant", content |-> calls]>>

Newest(s, n) == IF Len(s) > n THEN SubSeq(s, Len(s) - n + 1, Len(s)) ELSE s

\* the step in which the provider answers appends the two turns and keeps the newest
KeepsNewest ==
  /\ (pc = "ai" /\ pc' = "done") =>
       conversationHistory' = Newest(Pushed, IF variant = "orig" THEN 16 ELSE 20)
  /\ (conversationHistory' # conversationHistory /\ ~(pc = "ai" /\ pc' = "done")) =>
       conversationHistory' = <<>>

C13_HistoryCappedFIFO ==
  /\ [](Len(conversationHistory) <= (IF variant = "orig" THEN 16 ELSE 20))
  /\ [][KeepsNewest]_vars

\* two calls have been answered and the oldest turns have been dropped
C13_Witness ==
  /\ Len(conversationHistory) = HistoryCap
  /\ conversationHistory[Len(conversationHistory)].content = 2
  /\ conversationHistory[1].content >= 3 - HistoryCap \div 2
  /\ conversationHistory[1].role = "user"

(***************************************************************************)
(* C14: the history persists across the calls of process() and is emptied  *)
(* only by clearHistory(): a step of process() changes it only by          *)
(* appending the two turns of a round trip (and evicting at the cap), the  *)
(* only other step that changes it is clearHistory(), which leaves it      *)
(* empty, and a provider request carries exactly the history held when it  *)
(* is made - none after clearHistory().                                    *)
(***************************************************************************)
ProviderRequestMade == pc = "ai" /\ sent'.made

HistoryStep ==
  /\ (pc # "idle" /\ conversationHistory' # conversationHistory) =>
       /\ pc = "ai" /\ pc' = "done"
       /\ IsPrefix(Newest(conversationHistory, Len(conversationHistory') - 2),
                   conversationHistory')
       /\ Len(conversationHistory') >= 2
       /\ Len(conversationHistory') = Len(conversationHistory) + 2
            \/ Len(conversationHistory') = HistoryCap
  /\ (pc = "idle" /\ conversationHistory' # conversationHistory) =>
       /\ conversationHistory' = <<>>
       /\ UNCHANGED <<pc, calls, files>>
  /\ ProviderRequestMade => sent'.prior = conversationHistory

C14_HistoryEmptiedOnlyByClear == [][HistoryStep]_vars

\* an engine with earlier turns was cleared, and the round trip after it carried no prior turn
C14_Witness ==
  /\ pc = "done"
  /\ sent.made
  /\ sent.prior = <<>>
  /\ Len(conversationHistory) = 2
  /\ conversationHistory[1].content = calls

(***************************************************************************)
(* C15: the first matching rule of the cascade decides the handler: a      *)
(* request to add a component of the component map that also matches the   *)
(* add-page rule ('add a multiple-choice quiz ... page') goes to           *)
(* handleAddWebComponent unless one of the five rules before the component *)
(* rule takes it, and a request with an add-page word, a page word and     *)
(* 'site' goes to handleAddPage unless a rule before it takes it, never to *)
(* handleCreateSite.                                                       *)
(***************************************************************************)
BeforeComponentRule ==
  {"handleDeployment", "handleCreateSlidedeck", "handleCustomization", "handleSiteCloning",
   "handleAddMultiplePages"}

AsksToAddComponentToPage ==
  /\ ValidRequest
  /\ variant = "orig"
  /\ StartsWith(X.input, <<"a","d","d"," ","a"," ">>)
  /\ X.componentType # "null"
  /\ Includes(X.input, <<"p","a","g","e">>)

AddPageWordsAndSite ==
  /\ ValidRequest
  /\ variant = "orig"
  /\ \E w \in {<<"a","d","d">>, <<"c","r","e","a","t","e">>, <<"n","e","w">>} : Includes(X.input, w)
  /\ Includes(X.input, <<"p","a","g","e">>)
  /\ Includes(X.input, <<"s","i","t","e">>)

C15_FirstMatchingRuleDecides ==
  /\ (Done /\ AsksToAddComponentToPage /\ X.rule \notin BeforeComponentRule) =>
       X.rule = "handleAddWebComponent"
  /\ (Done /\ AddPageWordsAndSite /\ X.rule \notin BeforeComponentRule \cup {"handleAddWebComponent"}) =>
       X.rule = "handleAddPage"
  /\ (Done /\ AddPageWordsAndSite) => X.rule # "handleCreateSite"

(***************************************************************************)
(* C17: CloneSite.  If the target name, given in the input or derived from *)
(* the source URL, equals a name in availableSites, the plan of            *)
(* handleSiteCloning has success = false and no commands.                  *)
(***************************************************************************)
\* handleSiteCloning has returned its plan for a request that names a source URL
CloneRequest ==
  /\ ValidRequest
  /\ variant = "orig"
  /\ X.rule = "handleSiteCloning"
  /\ X.cloneInfo.sourceUrl # Null
  /\ patternResult # NoPlan

TargetName ==
  IF X.cloneInfo.newSiteName # Null THEN X.cloneInfo.newSiteName
  ELSE generateSiteNameFromUrl(X.cloneInfo.sourceUrl)

Collides == \E k \in 1..Len(fullContext.availableSites) : fullContext.availableSites[k] = TargetName

IsImport(c) ==
  /\ c.template = "hax site create --name ${siteName} --import-site ${sourceUrl} --import-structure haxcmsToSite --auto"
  /\ c.args = <<TargetName, X.cloneInfo.sourceUrl>>

CollisionRejected == Collides => ~patternResult.success /\ patternResult.commands = <<>>

\* the claim as stated: without a collision the command list is the import command alone
C17_SingleImportCommand ==
  CloneRequest =>
    /\ CollisionRejected
    /\ ~Collides => /\ Len(patternResult.commands) = 1
                    /\ IsImport(patternResult.commands[1])

\* C17, amended: without a collision the plan succeeds and its command list is a cd
\* to the sites directory, an echo, and one import command for the new site
C17_ImportAfterCdAndEcho ==
  CloneRequest =>
    /\ CollisionRejected
    /\ ~Collides =>
         /\ patternResult.success
         /\ Len(patternResult.commands) = 3
         /\ patternResult.commands[1] = Cmd("cd ${sitesDir}", <<fullContext.sitesDir>>)
         /\ patternResult.commands[2].template = "echo Cloning site from ${sourceUrl} using HAX import..."
         /\ IsImport(patternResult.commands[3])
         /\ Cardinality({k \in 1..3 : IsImport(patternResult.commands[k])}) = 1

\* a name derived from the URL collided with a site
C17_Witness ==
  /\ CloneRequest
  /\ Collides
  /\ X.cloneInfo.newSiteName = Null
  /\ ~patternResult.success

(***************************************************************************)
(* C16: every command of every returned plan is a single line: its text    *)
(* holds no newline character, the manifest-patching commands and the      *)
(* commands that embed generated or fallback content included.             *)
(***************************************************************************)
\* the content generateBasicContentFromResources joins with newlines
HoldsNewline(arg) ==
  \/ \E i \in 1..Len(arg) : arg[i] = "\n"
  \/ arg = Opaque("<p>${p1}</p>\n<p>${p2}</p>\n<p>${p3}</p>")

SingleLine(c) ==
  /\ c.template \notin MultiLineTemplates
  /\ \A k \in 1..Len(c.args) : ~HoldsNewline(c.args[k])

C16_CommandsAreSingleLines ==
  Done => \A k \in 1..Len(result.commands) : SingleLine(result.commands[k])

(***************************************************************************)
(* C18: buildResourcesSummary never fails.  Whatever the context and the   *)
(* materials folder, it returns a summary and raises nothing; the summary  *)
(* is the empty one when there is no selected site, no folder, or neither  *)
(* a usable metadata record nor a document; a document that cannot be read *)
(* is left out and the others are summarised, capped; and with a context   *)
(* the system prompt is built.                                             *)
(***************************************************************************)
NothingToRead ==
  \/ Falsy(resources.context.currentSite)
  \/ ~resources.folder.exists
  \/ resources.folder.meta.state # "object" /\ resources.folder.entries = <<>>

FromReadableDocument(snippet) ==
  \E k \in 1..Len(resources.folder.entries) :
     LET e == resources.folder.entries[k]
     IN e.name = snippet.name /\ e.isFile /\ e.read = "ok" /\ e.length > 0
        /\ snippet.length = (IF e.length > 1200 THEN 1200 ELSE e.length)

C18_SummarizerNeverFails ==
  resources.built =>
    /\ ~resources.summary.raised
    /\ NothingToRead => resources.summary.empty /\ resources.summary.snippets = <<>>
    /\ \A k \in 1..Len(resources.summary.snippets) : FromReadableDocument(resources.summary.snippets[k])
    /\ Len(resources.summary.snippets) <= 10
    /\ resources.context.valid => ~resources.prompt.raised
    /\ resources.prompt.grounded = ~resources.summary.empty

\* one document of the folder could not be read and the summary holds the other one
C18_Witness ==
  /\ resources.built
  /\ \E k \in 1..Len(resources.folder.entries) :
        resources.folder.entries[k].isFile /\ resources.folder.entries[k].read = "raises"
  /\ ~resources.summary.empty
  /\ Len(resources.summary.snippets) = 1
  /\ resources.summary.snippets[1].length = 1200

(***************************************************************************)
(* C19: configuration changes take effect at once: when process.env holds  *)
(* an API key - from the start or saved through POST /api/config/api-keys  *)
(* - a call of process() uses the provider as an engine constructed with   *)
(* the key does: the later variant sends the request to it, the original   *)
(* one sends what the patterns failed on.                                  *)
(***************************************************************************)
C19_SavedKeysTakeEffect ==
  (Done /\ envKeys /\ ValidRequest) =>
     IF variant = "later" THEN Consulted
     ELSE (patternResult # NoPlan /\ ~patternResult.success) => Consulted

(***************************************************************************)
(* C20: the file endpoints never read or write a path outside the sites    *)
(* directory: a request that is answered 200 has read or written the       *)
(* sites directory or a path below it - whatever its '..' segments, and    *)
(* not a sibling directory whose name starts with the name of the sites    *)
(* directory.                                                              *)
(***************************************************************************)
InsideSitesDir(p) ==
  \/ p = SitesDir
  \/ Len(p) > Len(SitesDir) /\ SubSeq(p, 1, Len(SitesDir) + 1) = SitesDir \o <<"/">>

C20_FileAccessStaysInside ==
  (access.method \in {"GET", "PUT"} /\ access.status = 200) => InsideSitesDir(access.path)

\* ---------------------------------------------------------------------------
\* C21
\* ---------------------------------------------------------------------------

Sanitized(fn) == helper.called /\ helper.fn = fn

\* no leading, trailing or repeated whitespace, and no whitespace but the space
SingleSpaced(s) ==
  /\ \A i \in 1..Len(s) : s[i] \in WS => s[i] = " "
  /\ Len(s) > 0 => (s[1] # " " /\ s[Len(s)] # " ")
  /\ \A i \in 1..(Len(s) - 1) : ~(s[i] = " " /\ s[i + 1] = " ")

LettersDigitsSpaces(s) == \A i \in 1..Len(s) : s[i] \in Lower \cup Upper \cup Digit \cup {" "}

\* the characters sanitizePageTitle replaces
UrlBreaking ==
  {":", ";", "|", "\\", "/", "?", "#", "[", "]", "@", "!", "$", "&", "'", "(", ")", "*", "+", ",", "=", "%"}

DeckBuilt == helper.called /\ helper.fn = "generateAISlidedeck"

SlideCount == Len(helper.arg.slides)

IsParentCommand(c) ==
  c.template \in {"hax site node:add --node-op create --title ${parentPageTitle} --content ${index} --y",
                  "hax site node:add --title ${parentPageTitle} --content ${index} --y"}

IsSlideCommand(c) ==
  c.template \in {"hax site node:add --node-op create --title ${sanitizedTitle} --content ${slideContent} --y",
                  "hax site node:add --title ${slide.title} --content ${slideContent} --y"}

IsRelationshipCommand(c) ==
  c.template \in {"node -e set the parent of ${sanitizedTitle} to ${parentPageTitle}",
                  "node -e set the parent of ${slide.title} to ${parentPageTitle}"}

\* C22: in a deck's commands every title is the sanitized title of the outline,
\* each relationship command looks up the title its slide's page command gives
\* and the title the parent page command gives
C22_DeckTitlesSanitizedAndMatched ==
  DeckBuilt =>
    LET cmds == helper.value
        N == SlideCount
    IN /\ cmds[1].args[1] = sanitizeSlideTitle(helper.arg.title)
       /\ \A i \in 1..N :
            /\ cmds[1 + i].args[1] = sanitizeSlideTitle(helper.arg.slides[i])
            /\ cmds[1 + N + i].args[2] = cmds[1 + i].args[1]
            /\ cmds[1 + N + i].args[1] = cmds[1].args[1]

\* C23: the commands of a deck of N slides are the parent page command, the N
\* slide page commands in outline order, the N relationship commands in outline
\* order, 1 + 2N in all
C23_DeckCommandOrder ==
  DeckBuilt =>
    LET cmds == helper.value
        N == SlideCount
        title(i) == IF variant = "first" THEN helper.arg.slides[i] ELSE sanitizeSlideTitle(helper.arg.slides[i])
        lookup(i) == IF variant = "first" THEN escapeQuotes_first(title(i)) ELSE escapeQuotes(title(i))
    IN /\ Len(cmds) = 1 + 2 * N
       /\ IsParentCommand(cmds[1])
       /\ \A i \in 1..N :
            /\ IsSlideCommand(cmds[1 + i])
            /\ cmds[1 + i].args[1] = title(i)
            /\ IsRelationshipCommand(cmds[1 + N + i])
            /\ cmds[1 + N + i].args[2] = lookup(i)

\* a deck of three different slides has been built
C23_Witness ==
  /\ DeckBuilt
  /\ SlideCount = 3
  /\ Cardinality({helper.arg.slides[i] : i \in 1..3}) = 3
  /\ Len(helper.value) = 7

\* ---------------------------------------------------------------------------
\* C24
\* ---------------------------------------------------------------------------

\* C24: the fallback outline has between 6 and 12 slides and each of its slide
\* titles holds letters, digits and spaces only, whatever the topic
C24_FallbackOutlineIsSanitized ==
  (helper.called /\ helper.fn = "getFallbackSlideStructure") =>
    /\ Len(helper.value.slides) >= 6
    /\ Len(helper.value.slides) <= 12
    /\ \A i \in 1..Len(helper.value.slides) : LettersDigitsSpaces(helper.value.slides[i])

\* ---------------------------------------------------------------------------
\* C25
\* ---------------------------------------------------------------------------

CountOf(s, w) == Cardinality({i \in 1..(Len(s) - Len(w) + 1) : SubSeq(s, i, i + Len(w) - 1) = w})

ThreeSegments(s) ==
  /\ CountOf(s, <<"<", "p", ">">>) = 3
  /\ CountOf(s, <<"<", "/", "p", ">">>) = 3
  /\ StartsWith(s, <<"<", "p", ">">>)
  /\ EndsWith(s, <<"<", "/", "p", ">">>)

ParagraphsMade == helper.called /\ helper.fn = "generateThreeParagraphsContent"

HasParagraphTag(s) == CountOf(s, <<"<", "p", ">">>) > 0

\* the whitespace of s that follows the end of a sentence and starts a separator
Separators(s) == {i \in 2..Len(s) : s[i] \in WS /\ s[i - 1] \in {".", "!", "?"}}

Correct(q) == {k \in 1..Len(q.choices) : q.choices[k].correct}

\* C26: the template quiz is one question of four choices, one of them correct
C26_TemplateQuizIsOneQuestion ==
  (helper.called /\ helper.fn = "generateTemplateQuiz") =>
    /\ Len(helper.value.questions) = 1
    /\ \A q \in 1..Len(helper.value.questions) :
         /\ Len(helper.value.questions[q].choices) = 4
         /\ Cardinality(Correct(helper.value.questions[q])) = 1

\* ---------------------------------------------------------------------------
\* C27
\* ---------------------------------------------------------------------------

\* the manifest of the site has a page of that title or slug
InManifest(page) ==
  \E k \in 1..Len(Items) : ToLowerCase(page) \in {ToLowerCase(Items[k].title), Items[k].slug}

\* the request names a site, or the context has a current one
SiteResolved == ~Falsy(X.siteFromInput[fullContext.availableSites]) \/ ~Falsy(fullContext.currentSite)

\* handleAddPage answered a request that names a parent the manifest does not have
AddPageUnderUnknownParent ==
  /\ Done /\ ValidRequest /\ variant = "orig" /\ LastStep = "patterns"
  /\ X.rule = "handleAddPage"
  /\ SiteResolved
  /\ ~Falsy(X.pageTitle)
  /\ ~Falsy(X.parentPage)
  /\ ~InManifest(X.parentPage)

\* handleCustomization answered a request that names a source page no title
\* or slug of the manifest contains
CustomizeUnknownPage ==
  /\ Done /\ ValidRequest /\ variant = "orig" /\ LastStep = "patterns"
  /\ X.rule = "handleCustomization"
  /\ SiteResolved
  /\ X.customization.pageName # Null
  /\ \A k \in 1..Len(Items) :
       /\ ~Includes(ToLowerCase(Items[k].title), ToLowerCase(X.customization.pageName))
       /\ ~Includes(ToLowerCase(Items[k].slug), ToLowerCase(X.customization.pageName))

\* C27: an AddPage request whose parent, or a Customize request whose source
\* page, is not in the manifest is answered with success = false and no commands
C27_UnresolvedPageIsNotFound ==
  (AddPageUnderUnknownParent \/ CustomizeUnknownPage) =>
    /\ ~result.success
    /\ result.commands = <<>>

\* ---------------------------------------------------------------------------
\* C28
\* ---------------------------------------------------------------------------

Alive(p) == serve.spawned[p].state = "alive"

\* the serve process spawned last for the site, 0 when there is none
LastSpawned(siteName) ==
  LET of == {p \in 1..Len(serve.spawned) : serve.spawned[p].siteName = siteName}
  IN IF of = {} THEN 0 ELSE CHOOSE p \in of : \A q \in of : q <= p

\* C28: runningProcesses maps a site to the serve process spawned last for it
\* as long as that process is alive, whatever exit events of earlier processes
\* came in between, and after shutdown no serve process is left alive
C28_LiveServeProcessIsTracked ==
  /\ \A siteName \in SitesOnDisk :
       (LastSpawned(siteName) # 0 /\ Alive(LastSpawned(siteName)) /\ ~serve.stopping)
         => serve.running[siteName] = LastSpawned(siteName)
  /\ serve.stopping => \A p \in 1..Len(serve.spawned) : ~Alive(p)

\* ---------------------------------------------------------------------------
\* C29
\* ---------------------------------------------------------------------------

\* the step in which the top-level provider request of processWithAI is answered
RoundTrip == pc = "ai" /\ pc' = "done"

\* C29: a step of a call of process() changes the history only when the
\* top-level provider request is answered, and then by appending the pair of
\* the call; the steps of the pattern handlers, with the inline provider calls
\* they make, and the step of a provider request that throws leave it unchanged
HistoryFrame ==
  /\ (pc' # "idle" /\ conversationHistory' # conversationHistory) =>
       /\ RoundTrip
       /\ conversationHistory' = Pushed
  /\ (pc \in {"patterns", "fallback"} /\ pc' # "idle") => conversationHistory' = conversationHistory
  /\ (pc = "ai" /\ pc' = "fallback") => conversationHistory' = conversationHistory
  /\ (pc = "done" /\ pc' = "idle") => conversationHistory' = conversationHistory

C29_HistoryChangesOnlyByRoundTrip == [][HistoryFrame]_vars

\* after a first call the provider answered, a second call was answered by a
\* handler that made inline provider calls: the history holds the pair of the
\* first call only
C29_Witness ==
  /\ Done
  /\ calls = 2
  /\ LastStep \in {"patterns", "fallback"}
  /\ result.inlineAI > 0
  /\ conversationHistory = <<[role |-> "user", content |-> 1], [role |-> "assistant", content |-> 1]>>

\* ---------------------------------------------------------------------------
\* C30
\* ---------------------------------------------------------------------------

\* the step of processWithPatterns returned a plan
PatternsReturned == pc \in {"patterns", "fallback"} /\ steps'[Len(steps')] = "patterns"

\* what a call does before the provider's turn and after the provider threw;
\* fell is what the steps of the call are when the second run has returned
AroundProvider(fell) ==
  /\ (pc = "idle" /\ pc' # "idle") => (pc' = "patterns" /\ steps' = <<>> /\ ~sent'.made)
  /\ (pc = "patterns" /\ PatternsReturned) =>
       IF patternResult'.success
       THEN pc' = "done" /\ result' = patternResult' /\ ~sent'.made
       ELSE pc' = "ai" /\ ~sent'.made
  /\ pc = "ai" => (steps = <<"patterns">> /\ ~patternResult.success)
  /\ (pc = "fallback" /\ PatternsReturned) =>
       (pc' = "done" /\ result' = patternResult' /\ steps' \in fell)
  /\ (sent'.made /\ ~sent.made) => pc = "ai"

\* the provider's turn: the request is sent, and the plan parsed from the reply
\* is returned, or the patterns run again
ProviderTurn ==
  /\ sent'.made
  /\ \/ pc' = "done" /\ \E response \in AIResponses : result' = parseAIResponse(response)
     \/ pc' = "fallback" /\ result' = result

\* C30 as stated: in ai-processorORIG.js with a key, a call of process() runs
\* the patterns first; a pattern plan with success = true is returned; the
\* provider is sent the request exactly when the pattern plan has success =
\* false, and then the call returns the plan parsed from the provider's
\* reply, or, the provider throwing, what a second run of the patterns gives
PatternsThenProvider ==
  (variant = "orig" /\ hasAPIKey) =>
    /\ AroundProvider({<<"patterns", "ai:threw", "patterns">>})
    /\ pc = "ai" => ProviderTurn

PatternsThenPromptThenProvider ==
  (variant = "orig" /\ hasAPIKey) =>
    /\ AroundProvider({<<"patterns", "ai:threw", "patterns">>, <<"patterns", "prompt:threw", "patterns">>})
    /\ (pc = "ai" /\ fullContext.valid) => ProviderTurn
    /\ (pc = "ai" /\ ~fullContext.valid) => (pc' = "fallback" /\ ~sent'.made /\ result' = result)

====
